---- MODULE Spec2Model ----
(***************************************************************************)
(* A model of ReCoder (Gobra/ReCoder): the video classification and        *)
(* encoding engine (app.py, transcoding.py), the task counter              *)
(* (taskcounter.py), the directory split (app.py, fshelper.py) and the     *)
(* duration-validity test.                                                 *)
(*                                                                         *)
(* Strings of the program are modelled at token level: a path is a record  *)
(* of its directory tokens, the tokens of its base name and its extension, *)
(* so that os.path.split / os.path.splitext / "in" are computed, not       *)
(* assumed.  Durations are whole seconds.                                  *)
(***************************************************************************)
EXTENDS Integers, Sequences, FiniteSets, TLC

VARIABLES
    fs,        \* the file system under the library root: path -> content
    db,        \* VideoTranscoder.db, the probe cache: path -> entry
    failed,    \* VideoTranscoder.failed
    vcounter,  \* VideoTranscoder.counter (a TaskCounter)
    scan,      \* the TaskCounter local to App.transcode_movies
    th,        \* threads: 0 is the calling thread, 1.. are the pool's tasks
    eng,       \* locals of VideoTranscoder.transcode_movies on the calling thread
    proc,      \* the encoder process started by subprocess.Popen
    app,       \* position of App.transcode_movies_in_directory, and the run
    probes,    \* history: ffprobe invocations per path, this instance
    hist,      \* history: the directory at the start, and the end of the first run
    dst,       \* split_directory: the three destination trees, bucket -> path -> content
    dirs,      \* split_directory: the destination directories that exist
    tc,        \* a TaskCounter shared by worker threads
    now,       \* time.time(), in ticks
    tw,        \* the worker threads that call the shared TaskCounter
    renders,   \* the console: the blocks printed by report_progress, in order
    requested, \* history: the sum of the units the increment calls asked for
    val,       \* check_transcoding_validity applied to two probed durations
    img,       \* the image engine: App.transcode_images and ImageTranscoder
    pg,        \* TaskCounter.progress() applied to a started counter
    bar,       \* ConsoleUtils.progress_bar_string applied to a fraction and a width
    con,       \* the terminal that the renders are printed to
    est,       \* a TaskCounter called by one thread: increment and time_report
    lk         \* the three mutexes, and the workers' steps in and out of them

videoVars == <<fs, db, failed, vcounter, scan, th, eng, proc, app, probes, hist>>
splitVars == <<dst, dirs>>
counterVars == <<tc, now, tw, renders, requested>>

\* the components that are modelled on their own
callVars == <<pg, bar, con>>
apiVars == <<est, lk>>
sideVars == <<val, img, callVars, apiVars>>

vars == <<videoVars, splitVars, counterVars, sideVars>>

\* what the video engine leaves alone
rest == <<splitVars, counterVars, sideVars>>

----------------------------------------------------------------------------
(* Paths *)

Root == "lib"                \* the directory handed to the App

PathIn(dir, name, ext) == [dir |-> dir, name |-> name, ext |-> ext]
Path(name, ext) == PathIn(<<Root>>, name, ext)

movie_mp4     == Path(<<"movie">>, ".mp4")
movie_mov     == Path(<<"movie">>, ".mov")
movie_AV1_mp4 == Path(<<"movie", "_AV1">>, ".mp4")
clip_mp4      == Path(<<"clip">>, ".mp4")
clip_AV1_mp4  == Path(<<"clip", "_AV1">>, ".mp4")
broken_mp4    == Path(<<"broken">>, ".mp4")
notes_xyz     == Path(<<"notes">>, ".xyz")
photo_avif    == Path(<<"photo">>, ".avif")
photo_heic    == Path(<<"photo">>, ".heic")
photo_jpg     == Path(<<"photo">>, ".jpg")
photo_png     == Path(<<"photo">>, ".png")
sub_a_avif    == PathIn(<<Root, "sub">>, <<"a">>, ".avif")
sub_a_jpg     == PathIn(<<Root, "sub">>, <<"a">>, ".jpg")
sub_b_avif    == PathIn(<<Root, "sub">>, <<"b">>, ".avif")
sub_b_jpg     == PathIn(<<Root, "sub">>, <<"b">>, ".jpg")

\* FSHelper.files_list: sorted(glob(...)), the order of the path strings
SortedPaths == <<broken_mp4, clip_mp4, clip_AV1_mp4, movie_mov, movie_mp4,
                 movie_AV1_mp4, notes_xyz, photo_avif, photo_heic, photo_jpg, photo_png,
                 sub_a_avif, sub_a_jpg, sub_b_avif, sub_b_jpg>>

AllPaths == {SortedPaths[i] : i \in 1..Len(SortedPaths)}

\* App.IMAGE_EXTENSIONS and App.MOVIE_EXTENSIONS, in their order, as far as the
\* modelled files use them
IMAGE_EXTENSIONS == <<".jpg", ".png">>
MOVIE_EXTENSIONS == <<".mp4", ".mov">>

Tokens(s) == {s[i] : i \in 1..Len(s)}

\* "_AV1" in file_path
HasMarker(p) == "_AV1" \in (Tokens(p.dir) \cup Tokens(p.name))

\* a variant that keeps the source's extension (as FSHelper.add_file_suffix does)
transcoded_movie_path_keep_ext(p) ==
    [dir |-> p.dir, name |-> Append(p.name, "_AV1"), ext |-> p.ext]

\* VideoTranscoder.transcoded_movie_path: <dir>/<name>_AV1.mp4
transcoded_movie_path(p) ==
    [dir |-> p.dir, name |-> Append(p.name, "_AV1"), ext |-> ".mp4"]

----------------------------------------------------------------------------
(* File contents and directories *)

\* a path holds nothing, a media file (duration in seconds, codec of the first
\* video stream, codec of the first audio stream), or a file that is no readable
\* video (an image, a text file, a damaged .mp4)
NoFile == [kind |-> "none"]
File(d, v, a) == [kind |-> "file", dur |-> d, vcodec |-> v, acodec |-> a]
Data == [kind |-> "data"]

\* os.path.exists
Exists(p) == p \in DOMAIN fs /\ fs[p].kind # "none"

EmptyDir == [p \in AllPaths |-> NoFile]

DirEmpty     == EmptyDir
DirSingle    == [EmptyDir EXCEPT ![movie_mp4] = File(100, "h264", "aac")]
DirValid     == [DirSingle EXCEPT ![movie_AV1_mp4] = File(100, "av1", "aac")]
DirInvalid   == [DirSingle EXCEPT ![movie_AV1_mp4] = File(95, "av1", "aac")]
DirShared    == [EmptyDir EXCEPT ![movie_mp4] = File(100, "hevc", "aac"),
                                 ![movie_mov] = File(105, "h264", "aac"),
                                 ![movie_AV1_mp4] = File(105, "av1", "aac")]
DirTwo       == [EmptyDir EXCEPT ![clip_mp4] = File(100, "h264", "pcm_s16le"),
                                 ![movie_mp4] = File(100, "h264", "aac")]

\* two sources that differ in their extension only
DirPair      == [EmptyDir EXCEPT ![movie_mp4] = File(100, "h264", "aac"),
                                 ![movie_mov] = File(105, "h264", "aac")]

Directories == {DirEmpty, DirSingle, DirValid, DirInvalid, DirShared, DirTwo, DirPair}

\* FSHelper.total_image: the files in sorted order, grouped by extension
RECURSIVE FilesWith(_, _, _)
FilesWith(f, ext, i) ==
    IF i > Len(SortedPaths) THEN <<>>
    ELSE IF f[SortedPaths[i]].kind # "none" /\ SortedPaths[i].ext = ext
         THEN <<SortedPaths[i]>> \o FilesWith(f, ext, i + 1)
         ELSE FilesWith(f, ext, i + 1)

\* the keys of the total_image dict, in insertion order: the extensions in the
\* order in which the sorted files first show them
RECURSIVE ExtensionsOf(_, _, _)
ExtensionsOf(f, i, seen) ==
    IF i > Len(SortedPaths) THEN <<>>
    ELSE IF f[SortedPaths[i]].kind # "none" /\ SortedPaths[i].ext \notin seen
         THEN <<SortedPaths[i].ext>> \o
              ExtensionsOf(f, i + 1, seen \cup {SortedPaths[i].ext})
         ELSE ExtensionsOf(f, i + 1, seen)

\* FSHelper.extract_files(total_image, extensions): the lists of the given
\* extensions, concatenated in the order of "extensions"; every key when
\* "extensions" is empty
RECURSIVE Concat(_, _, _)
Concat(f, exts, i) ==
    IF i > Len(exts) THEN <<>>
    ELSE FilesWith(f, exts[i], 1) \o Concat(f, exts, i + 1)

extract_files(f, extensions) ==
    IF Len(extensions) > 0 THEN Concat(f, extensions, 1)
    ELSE Concat(f, ExtensionsOf(f, 1, {}), 1)

----------------------------------------------------------------------------
(* The probe and its cache: VideoTranscoder.get_video_info *)

NoDuration == 0 - 1          \* Python's None for a duration

NoEntry == [kind |-> "miss"]
Info(d, v, a) == [kind |-> "info", duration |-> d, video_codec |-> v, audio_codec |-> a]

\* What subprocess.run(ffprobe) + json.loads + the parsing of lines 50-85 give for
\* the file now at the path.  A readable media file gives its duration and the
\* codec of its first video and first audio stream.  For a path that holds no
\* readable media the tool's stdout is either an empty JSON object (duration 0.0,
\* codecs None) or no JSON at all, and then json.loads raises.
ffprobe(c) ==
    IF c.kind = "file"
    THEN {Info(c.dur, c.vcodec, c.acodec)}
    ELSE {Info(0, "None", "None"), [kind |-> "raise"]}

\* math.isclose(a, b, rel_tol=0.01) as CPython computes it, abs_tol = 0.0:
\*     if a == b: return True
\*     diff = fabs(b - a)
\*     return diff <= fabs(rel_tol * b) or diff <= fabs(rel_tol * a) or diff <= abs_tol
\* on whole seconds, both sides of each comparison scaled by 100.
Abs(x) == IF x < 0 THEN 0 - x ELSE x
Max(a, b) == IF a >= b THEN a ELSE b

RelTolPercent == 1           \* rel_tol=0.01

\* the same test with the boundary excluded (< for <=)
isclose_strict(a, b) ==
    LET diff == Abs(b - a) IN
    \/ a = b
    \/ diff * 100 < RelTolPercent * Abs(b)
    \/ diff * 100 < RelTolPercent * Abs(a)

\* math.isclose(a, b, rel_tol=0.01)
isclose(a, b) ==
    LET diff == Abs(b - a) IN
    \/ a = b
    \/ diff * 100 <= RelTolPercent * Abs(b)
    \/ diff * 100 <= RelTolPercent * Abs(a)
    \/ diff <= 0

\* a variant that takes only av1 as a target codec
video_codec_requires_transcoding_av1_only(codec) == codec # "av1"

\* App._video_codec_requires_transcoding
video_codec_requires_transcoding(codec) == codec # "av1" /\ codec # "hevc"

\* VideoTranscoder._is_audio_codec_supported_in_mp4 (for a codec that is a string)
is_audio_codec_supported_in_mp4(codec) == codec \in {"aac", "mp3", "ac3", "eac3"}

----------------------------------------------------------------------------
(* TaskCounter *)

ReportInterval == 2           \* TaskCounter(0.1): 0.1 s, as two clock ticks

\* TaskCounter.__init__
NewCounter(interval) ==
    [count |-> 0, subunits_count |-> 0, total |-> 0, subunits_total |-> NoDuration,
     start_time |-> 0, last_report_time |-> 0, report_interval |-> interval,
     subunits |-> FALSE, estimated_on |-> 0, estimate_time |-> [kind |-> "int", n |-> 0]]

\* TaskCounter.start
start(c, total, subunits_total, t) ==
    [c EXCEPT !.count = 0, !.subunits_count = 0, !.total = total,
              !.subunits_total = subunits_total, !.start_time = t,
              !.estimated_on = 0, !.estimate_time = [kind |-> "int", n |-> 0],
              !.last_report_time = t]

\* The parameters of "def increment(self, subunits=None)": a call binds only if
\* every keyword it passes is one of them; otherwise Python raises TypeError
\* before the body runs.
IncrementParams == {"subunits"}
IncrementBinds(keywords) == keywords \subseteq IncrementParams

\* The body of TaskCounter.increment, under self.lock (subunits given)
increment(c, subunits) ==
    [c EXCEPT !.count = @ + 1,
              !.subunits_count = IF c.subunits THEN @ + subunits ELSE @]

\* TaskCounter.format_time: HH:MM:SS of int(seconds)
format_time(seconds) ==
    [kind |-> "hms", h |-> seconds \div 3600, m |-> (seconds % 3600) \div 60,
     s |-> seconds % 60]

\* TaskCounter.time_report with the estimate computed anew on every call
time_report_uncached(c, t) ==
    LET total == IF ~c.subunits THEN c.subunits_total ELSE c.total
        count == IF ~c.subunits THEN c.subunits_count ELSE c.count
    IN
    IF count = 0 THEN [text |-> [kind |-> "estimating"], c |-> c]
    ELSE LET remaining == ((t - c.start_time) * (total - count)) \div count
             u == [c EXCEPT !.estimate_time = format_time(remaining),
                            !.estimated_on = count]
         IN [text |-> u.estimate_time, c |-> u]

\* TaskCounter.time_report at time "now": the text returned and the counter after
\* (the estimate is cached in the counter)
time_report(c, t) ==
    LET total == IF ~c.subunits THEN c.subunits_total ELSE c.total
        count == IF ~c.subunits THEN c.subunits_count ELSE c.count
    IN
    IF count = 0 THEN [text |-> [kind |-> "estimating"], c |-> c]
    ELSE IF count # c.estimated_on
    THEN LET remaining == ((t - c.start_time) * (total - count)) \div count
             u == [c EXCEPT !.estimate_time = format_time(remaining),
                            !.estimated_on = count]
         IN [text |-> u.estimate_time, c |-> u]
    ELSE [text |-> c.estimate_time, c |-> c]

----------------------------------------------------------------------------
(* Threads *)

MaxTasks == Len(SortedPaths)
Tasks == 1..MaxTasks
Threads == 0..MaxTasks

IdleThread ==
    [pc |-> "idle", path |-> movie_mp4, duration |-> NoDuration, valid |-> "none",
     gpath |-> movie_mp4, gret |-> "none", entry |-> NoEntry, result |-> "none",
     seen64 |-> "none", codec |-> "unprobed", calls |-> 0, err |-> "none",
     target |-> "none"]

IdleEngine ==
    [idx |-> 1, batch |-> <<>>, total_duration |-> 0, info |-> NoEntry, aac |-> FALSE,
     nlines |-> 0, last_progress |-> 0, summary |-> <<>>, waited |-> 0]

NoProc == [state |-> "none", out |-> movie_mp4, src |-> movie_mp4]

\* a call of get_video_info(p) whose result is used at "ret"
Call(t, p, ret) ==
    [th[t] EXCEPT !.pc = "g_check", !.gpath = p, !.gret = ret, !.calls = @ + 1]

Raised(t, e) == [th[t] EXCEPT !.pc = "raised", !.err = e]

Done(r, result) == [r EXCEPT !.pc = "done", !.result = result]

\* VideoTranscoder.check_transcoding_validity, given the two probed durations
check_transcoding_validity(duration, av1_duration) ==
    [valid |-> isclose(duration, av1_duration), duration |-> duration]

\* The candidate output of task t's file
Candidate(t) == transcoded_movie_path(th[t].path)

\* Where get_video_info returns to: the thread record after the caller has used
\* the entry e.  "valid_src"/"valid_cand" are the two calls of
\* check_transcoding_validity (app.py:59), "codec" is app.py:67, "dur" is app.py:70,
\* "engine" is transcoding.py:108, "split" is app.py:184.
Resume(t, e) ==
    LET r == th[t] IN
    CASE r.gret = "valid_src" ->
           [Call(t, Candidate(t), "valid_cand") EXCEPT !.duration = e.duration]
      [] r.gret = "valid_cand" ->
           LET c == check_transcoding_validity(r.duration, e.duration) IN
           [r EXCEPT !.valid = IF c.valid THEN "yes" ELSE "no",
                     !.duration = c.duration,
                     !.pc = IF c.valid THEN "exists2" ELSE "remove"]
      [] r.gret = "codec" ->
           IF video_codec_requires_transcoding(e.video_codec)
           THEN IF r.duration = NoDuration
                THEN [Call(t, r.path, "dur") EXCEPT !.codec = e.video_codec]
                ELSE [Done(r, "encode") EXCEPT !.codec = e.video_codec]
           ELSE [Done(r, "skip_codec") EXCEPT !.codec = e.video_codec,
                                              !.duration = NoDuration]
      [] r.gret = "dur" ->
           [Done(r, "encode") EXCEPT !.duration = e.duration]
      [] r.gret = "engine" ->
           [r EXCEPT !.pc = "popen"]
      [] r.gret = "split" ->
           [r EXCEPT !.pc = "transfer",
                     !.target = IF video_codec_requires_transcoding(e.video_codec)
                                THEN "Source" ELSE "Transcoded"]

\* get_video_info lines 33-35: the cache lookup under self.lock
GCheck(t) ==
    /\ th[t].pc = "g_check"
    /\ IF db[th[t].gpath].kind = "info"
       THEN /\ th' = [th EXCEPT ![t] = Resume(t, db[th[t].gpath])]
            /\ eng' = IF th[t].gret = "engine"
                      THEN [eng EXCEPT !.info = db[th[t].gpath]] ELSE eng
       ELSE /\ th' = [th EXCEPT ![t].pc = "g_probe"]
            /\ eng' = eng
    /\ UNCHANGED <<rest, fs, db, failed, vcounter, scan, proc, app, probes, hist>>

\* get_video_info lines 38-85: the external probe and its parsing, outside the lock
GProbe(t) ==
    /\ th[t].pc = "g_probe"
    /\ \E o \in ffprobe(fs[th[t].gpath]) :
         th' = [th EXCEPT ![t] = IF o.kind = "raise"
                                 THEN Raised(t, "JSONDecodeError")
                                 ELSE [th[t] EXCEPT !.pc = "g_save", !.entry = o]]
    /\ probes' = [probes EXCEPT ![th[t].gpath] = @ + 1]
    /\ UNCHANGED <<rest, fs, db, failed, vcounter, scan, eng, proc, app, hist>>

\* get_video_info lines 87-92: the insert under self.lock, and the return
GSave(t) ==
    /\ th[t].pc = "g_save"
    /\ db' = [db EXCEPT ![th[t].gpath] = th[t].entry]
    /\ th' = [th EXCEPT ![t] = Resume(t, th[t].entry)]
    /\ eng' = IF th[t].gret = "engine" THEN [eng EXCEPT !.info = th[t].entry] ELSE eng
    /\ UNCHANGED <<rest, fs, failed, vcounter, scan, proc, app, probes, hist>>

----------------------------------------------------------------------------
(* App.transcode_movies: the classification pass *)

PoolSize == 4                \* ThreadPoolExecutor(max_workers=4)

Running == {t \in Tasks : th[t].pc \notin {"idle", "queued", "done", "raised"}}

\* App.transcode_movies_in_directory and App.transcode_movies lines 83-95:
\* enumerate, start the scan counter, read files[0], submit one task per file
transcode_movies_in_directory ==
    /\ app.phase = "init"
    /\ LET files == extract_files(fs, MOVIE_EXTENSIONS) IN
       /\ scan' = start(NewCounter(ReportInterval), Len(files), NoDuration, 0)
       /\ IF Len(files) = 0
          THEN /\ app' = [app EXCEPT !.phase = "aborted", !.err = "IndexError"]
               /\ th' = th
          ELSE /\ app' = [app EXCEPT !.phase = "scan", !.files = files]
               /\ th' = [t \in Threads |->
                           IF t \in 1..Len(files)
                           THEN [IdleThread EXCEPT !.pc = "queued", !.path = files[t]]
                           ELSE IdleThread]
    /\ UNCHANGED <<rest, fs, db, failed, vcounter, eng, proc, probes, hist>>

\* _preprocess_movie_file lines 44-58: a pool thread takes the next queued task,
\* counts it, tests the marker and looks for the candidate output
WStart(t) ==
    /\ app.phase = "scan"
    /\ th[t].pc = "queued"
    /\ \A u \in 1..(t - 1) : th[u].pc # "queued"
    /\ Cardinality(Running) < PoolSize
    /\ scan' = increment(scan, NoDuration)
    /\ th' = [th EXCEPT ![t] =
                IF HasMarker(th[t].path)
                THEN Done(th[t], "skip_marked")
                ELSE IF Exists(transcoded_movie_path(th[t].path))
                     THEN Call(t, th[t].path, "valid_src")
                     ELSE [th[t] EXCEPT !.pc = "exists2"]]
    /\ UNCHANGED <<rest, fs, db, failed, vcounter, eng, proc, app, probes, hist>>

\* _preprocess_movie_file line 61: os.remove(recoded_path)
WRemove(t) ==
    /\ app.phase = "scan"
    /\ th[t].pc = "remove"
    /\ IF Exists(Candidate(t))
       THEN /\ fs' = [fs EXCEPT ![Candidate(t)] = NoFile]
            /\ th' = [th EXCEPT ![t].pc = "exists2"]
       ELSE /\ fs' = fs
            /\ th' = [th EXCEPT ![t] = Raised(t, "FileNotFoundError")]
    /\ UNCHANGED <<rest, db, failed, vcounter, scan, eng, proc, app, probes, hist>>

\* _preprocess_movie_file lines 64-67: the second existence test
WExists2(t) ==
    /\ app.phase = "scan"
    /\ th[t].pc = "exists2"
    /\ th' = [th EXCEPT ![t] =
                IF Exists(Candidate(t))
                THEN [Done(th[t], "skip_valid") EXCEPT !.seen64 = "yes"]
                ELSE [Call(t, th[t].path, "codec") EXCEPT !.seen64 = "no"]]
    /\ UNCHANGED <<rest, fs, db, failed, vcounter, scan, eng, proc, app, probes, hist>>

\* App.transcode_movies lines 98-103 over the results of the tasks
RECURSIVE ValidFiles(_, _)
ValidFiles(t, n) ==
    IF t > n THEN <<>>
    ELSE IF th[t].result = "encode"
         THEN <<th[t].path>> \o ValidFiles(t + 1, n)
         ELSE ValidFiles(t + 1, n)

RECURSIVE TotalDuration(_, _)
TotalDuration(t, n) ==
    IF t > n THEN 0
    ELSE IF th[t].result = "encode"
         THEN th[t].duration + TotalDuration(t + 1, n)
         ELSE TotalDuration(t + 1, n)

FirstRaised(n) == CHOOSE t \in 1..n :
    th[t].pc = "raised" /\ \A u \in 1..(t - 1) : th[u].pc # "raised"

\* App.transcode_movies lines 95-110 once the pool has finished, and
\* VideoTranscoder.transcode_movies lines 196-199: list(executor.map(...)) re-raises
\* the first task's exception; otherwise the batch is handed to the engine, which
\* starts its counter
ScanDone ==
    /\ app.phase = "scan"
    /\ LET n == Len(app.files) IN
       /\ \A t \in 1..n : th[t].pc \in {"done", "raised"}
       /\ IF \E t \in 1..n : th[t].pc = "raised"
          THEN /\ app' = [app EXCEPT !.phase = "aborted", !.err = th[FirstRaised(n)].err]
               /\ UNCHANGED <<eng, vcounter, th>>
          ELSE /\ app' = [app EXCEPT !.phase = "encode"]
               /\ eng' = [IdleEngine EXCEPT !.batch = ValidFiles(1, n),
                                            !.total_duration = TotalDuration(1, n)]
               /\ vcounter' = start(vcounter, Len(ValidFiles(1, n)), TotalDuration(1, n), 0)
               /\ th' = [th EXCEPT ![0].pc = "loop"]
    /\ UNCHANGED <<rest, fs, db, failed, scan, proc, probes, hist>>

----------------------------------------------------------------------------
(* VideoTranscoder.transcode_movies: the sequential encode of the batch *)

MaxLines == 2                \* diagnostic lines read per encode, besides end of file
MaxTime == 2                 \* largest time marker, in seconds

\* what one readline() of the encoder's stderr can be: a line with a parsable
\* "time=HH:MM:SS" (its value in seconds, Formatting.parse_time_to_seconds), a line
\* with "time=" and no parsable value, a line containing "failed", any other line,
\* or end of file
Lines == [kind : {"time"}, t : 0..MaxTime] \cup
         [kind : {"time_na", "failed", "other", "eof"}, t : {0}]

\* the keywords of the two calls of counter.increment in
\* run_ffmpeg_and_process_progress (lines 153 and 158)
EngineIncrementKeywords == {"units", "subunits"}

CurrentFile == eng.batch[eng.idx]

\* transcode_movies lines 200-209 and transcode_to_av1_svt lines 181-192: the loop
\* head.  Past the last file the failure summary is printed and the call returns;
\* otherwise the output path must not exist, and the encode begins with
\* get_video_info(file)
VLoop ==
    /\ app.phase = "encode"
    /\ th[0].pc = "loop"
    /\ IF eng.idx > Len(eng.batch)
       THEN /\ th' = [th EXCEPT ![0].pc = "returned"]
            /\ eng' = [eng EXCEPT !.summary = failed]
       ELSE /\ th' = [th EXCEPT ![0] =
                        IF Exists(transcoded_movie_path(CurrentFile))
                        THEN Raised(0, "OutputExists")
                        ELSE Call(0, CurrentFile, "engine")]
            /\ eng' = eng
    /\ UNCHANGED <<rest, fs, db, failed, vcounter, scan, proc, app, probes, hist>>

\* run_ffmpeg_and_process_progress lines 109-123: the audio test (None has no
\* lower()) and subprocess.Popen
VPopen ==
    /\ app.phase = "encode"
    /\ th[0].pc = "popen"
    /\ IF eng.info.audio_codec = "None"
       THEN /\ th' = [th EXCEPT ![0] = Raised(0, "AttributeError")]
            /\ UNCHANGED <<eng, proc>>
       ELSE /\ th' = [th EXCEPT ![0].pc = "readline"]
            /\ eng' = [eng EXCEPT
                         !.aac = ~is_audio_codec_supported_in_mp4(eng.info.audio_codec),
                         !.nlines = 0, !.last_progress = 0]
            /\ proc' = [state |-> "running",
                        out |-> transcoded_movie_path(CurrentFile), src |-> CurrentFile]
    /\ UNCHANGED <<rest, fs, db, failed, vcounter, scan, app, probes, hist>>

\* the encoder process exits, on its own schedule: it leaves a complete output
\* (the source's duration, AV1), a truncated one, or none
ProcExit ==
    /\ proc.state = "running"
    /\ \E o \in {"complete", "partial", "nothing"} :
         fs' = [fs EXCEPT ![proc.out] =
                  CASE o = "complete" -> File(fs[proc.src].dur, "av1", "aac")
                    [] o = "partial"  -> File(fs[proc.src].dur \div 2, "av1", "aac")
                    [] o = "nothing"  -> NoFile]
    /\ proc' = [proc EXCEPT !.state = "exited"]
    /\ UNCHANGED <<rest, db, failed, vcounter, scan, th, eng, app, probes, hist>>

\* run_ffmpeg_and_process_progress lines 124-154: one pass of the read loop
VReadline ==
    /\ app.phase = "encode"
    /\ th[0].pc = "readline"
    /\ \E line \in Lines :
         /\ line.kind = "eof" => proc.state = "exited"
         /\ line.kind # "eof" => eng.nlines < MaxLines
         /\ LET time_value == line.t
                progress == time_value - eng.last_progress
            IN
            CASE line.kind = "eof" ->
                   /\ th' = [th EXCEPT ![0].pc = "wait"]
                   /\ UNCHANGED <<eng, failed, vcounter>>
              [] line.kind = "failed" ->
                   /\ failed' = Append(failed, CurrentFile)
                   /\ th' = [th EXCEPT ![0].pc = "wait"]
                   /\ eng' = [eng EXCEPT !.nlines = @ + 1]
                   /\ vcounter' = vcounter
              [] line.kind = "other" ->
                   /\ eng' = [eng EXCEPT !.nlines = @ + 1]
                   /\ UNCHANGED <<th, failed, vcounter>>
              [] line.kind \in {"time", "time_na"} ->
                   /\ failed' = failed
                   /\ IF line.kind = "time" /\ eng.info.duration = 0
                      THEN /\ th' = [th EXCEPT ![0] = Raised(0, "ZeroDivisionError")]
                           /\ eng' = [eng EXCEPT !.nlines = @ + 1]
                           /\ vcounter' = vcounter
                      ELSE IF ~IncrementBinds(EngineIncrementKeywords)
                      THEN /\ th' = [th EXCEPT ![0] = Raised(0, "TypeError")]
                           /\ eng' = [eng EXCEPT !.nlines = @ + 1,
                                                 !.last_progress = time_value]
                           /\ vcounter' = vcounter
                      ELSE /\ th' = th
                           /\ eng' = [eng EXCEPT !.nlines = @ + 1,
                                                 !.last_progress = time_value]
                           /\ vcounter' = increment(vcounter, progress)
    /\ UNCHANGED <<rest, fs, db, scan, proc, app, probes, hist>>

\* run_ffmpeg_and_process_progress lines 157-159 without process.wait(): the engine
\* goes on while the encoder may still be running
VWait_no_wait ==
    /\ app.phase = "encode"
    /\ th[0].pc = "wait"
    /\ IF ~IncrementBinds(EngineIncrementKeywords)
       THEN /\ th' = [th EXCEPT ![0] = Raised(0, "TypeError")]
            /\ eng' = [eng EXCEPT !.waited = @ + 1]
            /\ vcounter' = vcounter
       ELSE /\ th' = [th EXCEPT ![0].pc = "loop"]
            /\ eng' = [eng EXCEPT !.idx = @ + 1, !.waited = @ + 1]
            /\ vcounter' = increment(vcounter, 0)
    /\ proc' = proc
    /\ UNCHANGED <<rest, fs, db, failed, scan, app, probes, hist>>

\* run_ffmpeg_and_process_progress lines 157-159: process.wait() and the final
\* counter.increment(units=1, subunits=0)
VWait ==
    /\ app.phase = "encode"
    /\ th[0].pc = "wait"
    /\ proc.state = "exited"
    /\ IF ~IncrementBinds(EngineIncrementKeywords)
       THEN /\ th' = [th EXCEPT ![0] = Raised(0, "TypeError")]
            /\ eng' = [eng EXCEPT !.waited = @ + 1]
            /\ vcounter' = vcounter
       ELSE /\ th' = [th EXCEPT ![0].pc = "loop"]
            /\ eng' = [eng EXCEPT !.idx = @ + 1, !.waited = @ + 1]
            /\ vcounter' = increment(vcounter, 0)
    /\ proc' = [proc EXCEPT !.state = "waited"]
    /\ UNCHANGED <<rest, fs, db, failed, scan, app, probes, hist>>

----------------------------------------------------------------------------
(* Two runs over the same directory *)

RunEnded ==
    \/ app.phase = "aborted"
    \/ app.phase = "encode" /\ th[0].pc \in {"returned", "raised"}

RunOutcome ==
    IF app.phase = "encode" /\ th[0].pc = "returned" THEN "returned" ELSE "raised"

\* transcode_movies_in_directory is called a second time over the same directory,
\* on the same App (same VideoTranscoder: cache, failure list, counter) or on a
\* newly constructed one
SecondRun ==
    /\ app.run = 1
    /\ RunEnded
    /\ proc.state # "running"
    /\ \E same \in BOOLEAN :
         /\ hist' = [hist EXCEPT !.fsRun1 = fs, !.run1 = RunOutcome, !.same = same]
         /\ db' = IF same THEN db ELSE [p \in AllPaths |-> NoEntry]
         /\ failed' = IF same THEN failed ELSE <<>>
         /\ vcounter' = IF same THEN vcounter ELSE NewCounter(ReportInterval)
         /\ probes' = IF same THEN probes ELSE [p \in AllPaths |-> 0]
    /\ app' = [run |-> 2, phase |-> "init", files |-> <<>>, err |-> "none"]
    /\ th' = [t \in Threads |-> IdleThread]
    /\ eng' = IdleEngine
    /\ proc' = NoProc
    /\ scan' = NewCounter(ReportInterval)
    /\ UNCHANGED <<rest, fs>>

----------------------------------------------------------------------------
(* check_transcoding_validity as a function of the two probed durations *)

MaxDuration == 200           \* the durations tried, in seconds

IdleVal == [pc |-> "idle", d1 |-> 0, d2 |-> 0, valid |-> FALSE, duration |-> NoDuration]

\* VideoTranscoder.check_transcoding_validity lines 96-100
CheckValidity ==
    /\ val.pc = "call"
    /\ LET r == check_transcoding_validity(val.d1, val.d2) IN
       val' = [val EXCEPT !.pc = "returned", !.valid = r.valid, !.duration = r.duration]
    /\ UNCHANGED <<videoVars, splitVars, counterVars, img, callVars, apiVars>>

----------------------------------------------------------------------------
(* TaskCounter shared by worker threads: increment and report_progress *)

NumWorkers == 2              \* threads calling the counter
MaxUnits == 2                \* units of work per thread
MaxClock == 2                \* the clock stops here

Workers == 1..NumWorkers

IdleWorker == [pc |-> "idle", units |-> 0, current_time |-> 0, shown |-> 0, hashes |-> 0,
               text |-> [kind |-> "estimating"], composed_at |-> 0]

BarWidth == 50               \* report_progress(50, ...)

\* how the callers of this repository call increment: increment() (app.py:49,
\* app.py:198, transcoding.py:238), increment(units=0, subunits=...)
\* (transcoding.py:153), increment(units=1, subunits=0) (transcoding.py:158)
CallShapes ==
    {[keywords |-> {}, units |-> 1],
     [keywords |-> {"units", "subunits"}, units |-> 0],
     [keywords |-> {"units", "subunits"}, units |-> 1]}

\* one unit of work of a thread begins: the call of counter.increment.  The
\* body runs under self.lock, so it is one step.
Work(w) ==
    /\ tw[w].pc = "idle"
    /\ tw[w].units < MaxUnits
    /\ \E call \in CallShapes :
         /\ requested' = requested + call.units
         /\ IF IncrementBinds(call.keywords)
            THEN /\ tc' = increment(tc, NoDuration)
                 /\ tw' = [tw EXCEPT ![w].pc = "r_time"]
            ELSE /\ tc' = tc
                 /\ tw' = [tw EXCEPT ![w].pc = "raised"]
    /\ UNCHANGED <<videoVars, splitVars, sideVars, now, renders>>

\* report_progress line 43: current_time = time.time()
RTime(w) ==
    /\ tw[w].pc = "r_time"
    /\ tw' = [tw EXCEPT ![w].pc = "r_check", ![w].current_time = now]
    /\ UNCHANGED <<videoVars, splitVars, sideVars, tc, now, renders, requested>>

\* report_progress lines 44-45: the interval test, and the early return
RCheck(w) ==
    /\ tw[w].pc = "r_check"
    /\ tw' = [tw EXCEPT ![w] =
                IF tw[w].current_time - tc.last_report_time < tc.report_interval
                THEN [IdleWorker EXCEPT !.units = tw[w].units + 1]
                ELSE [@ EXCEPT !.pc = "r_set"]]
    /\ UNCHANGED <<videoVars, splitVars, sideVars, tc, now, renders, requested>>

\* report_progress line 46: self.last_report_time = current_time
RSet(w) ==
    /\ tw[w].pc = "r_set"
    /\ tc' = [tc EXCEPT !.last_report_time = tw[w].current_time]
    /\ tw' = [tw EXCEPT ![w].pc = "r_compose"]
    /\ UNCHANGED <<videoVars, splitVars, sideVars, now, renders, requested>>

\* report_progress lines 55-81: the bar from progress(), the estimate from
\* time_report() (under self.lock), the text of the block
RCompose(w) ==
    /\ tw[w].pc = "r_compose"
    /\ IF tc.total = 0
       THEN /\ tw' = [tw EXCEPT ![w].pc = "raised"]
            /\ tc' = tc
       ELSE LET r == time_report(tc, now)
                \* int(min(max(count / total, 0), 1) * max_length)
                hashes == IF tc.count >= tc.total THEN BarWidth
                          ELSE (tc.count * BarWidth) \div tc.total
            IN /\ tc' = r.c
               /\ tw' = [tw EXCEPT ![w].pc = "r_print", ![w].shown = tc.count,
                                   ![w].hashes = hashes, ![w].text = r.text,
                                   ![w].composed_at = now]
    /\ UNCHANGED <<videoVars, splitVars, sideVars, now, renders, requested>>

\* report_progress lines 84-85: the block is printed under self.lock
RPrint(w) ==
    /\ tw[w].pc = "r_print"
    /\ renders' = Append(renders, [by |-> w, current_time |-> tw[w].current_time,
                                   at |-> now, count |-> tw[w].shown,
                                   hashes |-> tw[w].hashes, text |-> tw[w].text,
                                   composed_at |-> tw[w].composed_at])
    /\ tw' = [tw EXCEPT ![w] = [IdleWorker EXCEPT !.units = tw[w].units + 1]]
    /\ UNCHANGED <<videoVars, splitVars, sideVars, tc, now, requested>>

\* time passes
Tick ==
    /\ now < MaxClock
    /\ now' = now + 1
    /\ UNCHANGED <<videoVars, splitVars, sideVars, tc, tw, renders, requested>>

----------------------------------------------------------------------------
(* App.split_directory *)

Destination == "out"
Buckets == {"Source", "Transcoded", "Unknown"}

\* os.path.join(destination, "Source") and so on
BucketDir(b) == <<Destination, b>>

\* a variant that knows only .avif
EFF_IMAGES_avif_only == {".avif"}

\* _move_single_split_file line 171
EFF_IMAGES == {".avif", ".heic"}

Elements(q) == {q[i] : i \in 1..Len(q)}

\* new_path = path.replace(old_root, new_root), on the directory tokens (no
\* modelled file name contains the root's name)
RECURSIVE ReplaceTokens(_, _, _)
ReplaceTokens(q, old, new) ==
    IF q = <<>> THEN <<>>
    ELSE (IF Head(q) = old THEN new ELSE <<Head(q)>>) \o ReplaceTokens(Tail(q), old, new)

transfer_path(p, old_root, new_root) ==
    [p EXCEPT !.dir = ReplaceTokens(p.dir, old_root, new_root)]

DestPaths == {transfer_path(p, Root, BucketDir(b)) : p \in AllPaths, b \in Buckets}

EmptyDst == [q \in DestPaths |-> NoFile]

\* os.makedirs(d): the directory and every missing parent
Prefixes(d) == {SubSeq(d, 1, n) : n \in 1..Len(d)}

SplitScenario == [EmptyDir EXCEPT ![photo_heic] = Data, ![photo_jpg] = Data,
                                  ![movie_mp4] = File(100, "av1", "aac"),
                                  ![notes_xyz] = Data]
SplitBroken   == [EmptyDir EXCEPT ![broken_mp4] = Data,
                                  ![clip_mp4] = File(100, "h264", "aac")]
SplitNested   == [EmptyDir EXCEPT ![sub_a_jpg] = Data, ![sub_b_jpg] = Data,
                                  ![movie_mov] = File(100, "hevc", "aac")]

SplitDirectories == {SplitScenario, SplitBroken, SplitNested}

\* split_directory lines 143-167: enumerate everything, create the three
\* bucket directories, start the counter, submit one task per file
split_directory ==
    /\ app.phase = "split_init"
    /\ LET everything == extract_files(fs, <<>>) IN
       /\ app' = [app EXCEPT !.phase = "split", !.files = everything]
       /\ scan' = start(NewCounter(ReportInterval), Len(everything), NoDuration, 0)
       /\ th' = [t \in Threads |->
                   IF t \in 1..Len(everything)
                   THEN [IdleThread EXCEPT !.pc = "queued", !.path = everything[t]]
                   ELSE IdleThread]
    /\ dirs' = dirs \cup {<<Destination>>} \cup {BucketDir(b) : b \in Buckets}
    /\ UNCHANGED <<counterVars, sideVars, fs, db, failed, vcounter, eng, proc, probes, hist, dst>>

\* _move_single_split_file lines 171-191: the bucket from the extension; a movie
\* extension asks get_video_info for the codec
SStart(t) ==
    /\ app.phase = "split"
    /\ th[t].pc = "queued"
    /\ \A u \in 1..(t - 1) : th[u].pc # "queued"
    /\ Cardinality(Running) < PoolSize
    /\ LET ext == th[t].path.ext IN
       th' = [th EXCEPT ![t] =
                IF ext \in EFF_IMAGES
                THEN [@ EXCEPT !.pc = "transfer", !.target = "Transcoded"]
                ELSE IF ext \in Elements(IMAGE_EXTENSIONS)
                THEN [@ EXCEPT !.pc = "transfer", !.target = "Source"]
                ELSE IF ext \in Elements(MOVIE_EXTENSIONS)
                THEN Call(t, th[t].path, "split")
                ELSE [@ EXCEPT !.pc = "transfer", !.target = "Unknown"]]
    /\ UNCHANGED <<counterVars, sideVars, splitVars, fs, db, failed, vcounter, scan, eng, proc,
                   app, probes, hist>>

\* FSHelper.transfer_file lines 101-112: the root test, the new path, and under
\* self.lock the creation of the missing directory
STransfer(t) ==
    /\ app.phase = "split"
    /\ th[t].pc = "transfer"
    /\ IF Head(th[t].path.dir) # Root
       THEN /\ th' = [th EXCEPT ![t] = Raised(t, "Exception")]
            /\ dirs' = dirs
       ELSE LET new_dir == transfer_path(th[t].path, Root, BucketDir(th[t].target)).dir IN
            /\ dirs' = IF new_dir \in dirs THEN dirs ELSE dirs \cup Prefixes(new_dir)
            /\ th' = [th EXCEPT ![t].pc = "copy"]
    /\ UNCHANGED <<counterVars, sideVars, dst, fs, db, failed, vcounter, scan, eng, proc, app,
                   probes, hist>>

\* the arguments of self.fs.transfer_file(file, source, target_dir,
\* skip_existing=False, erase_original=False) at app.py:194
SplitSkipExisting == FALSE
SplitEraseOriginal_moving == TRUE
SplitEraseOriginal == FALSE

\* transfer_file lines 115-119 and _move_single_split_file lines 197-199: unless
\* the copy is skipped, shutil.copy2, and os.remove(path) if erase_original; then
\* the counter
SCopy(t) ==
    /\ app.phase = "split"
    /\ th[t].pc = "copy"
    /\ LET path == th[t].path
           new_path == transfer_path(path, Root, BucketDir(th[t].target))
       IN
       IF SplitSkipExisting /\ dst[new_path].kind # "none"
       THEN /\ scan' = increment(scan, NoDuration)
            /\ th' = [th EXCEPT ![t].pc = "done"]
            /\ UNCHANGED <<dst, fs>>
       ELSE IF new_path.dir \in dirs
       THEN /\ dst' = [dst EXCEPT ![new_path] = fs[path]]
            /\ fs' = IF SplitEraseOriginal THEN [fs EXCEPT ![path] = NoFile] ELSE fs
            /\ scan' = increment(scan, NoDuration)
            /\ th' = [th EXCEPT ![t].pc = "done"]
       ELSE /\ th' = [th EXCEPT ![t] = Raised(t, "FileNotFoundError")]
            /\ UNCHANGED <<dst, scan, fs>>
    /\ UNCHANGED <<counterVars, sideVars, dirs, db, failed, vcounter, eng, proc, app,
                   probes, hist>>

\* split_directory line 166-167: leaving the "with" block waits for the pool; the
\* iterator of executor.map is never read, so a task's exception is not re-raised
SplitDone ==
    /\ app.phase = "split"
    /\ \A t \in 1..Len(app.files) : th[t].pc \in {"done", "raised"}
    /\ app' = [app EXCEPT !.phase = "split_returned"]
    /\ UNCHANGED <<counterVars, sideVars, splitVars, fs, db, failed, vcounter, scan, th, eng,
                   proc, probes, hist>>

----------------------------------------------------------------------------
(* The image engine: App.transcode_images and ImageTranscoder *)

ImagePool == 2               \* max_workers = multiprocessing.cpu_count() * power_factor

\* a variant that leaves the path as it is
replace_file_extention_keep(p, ext) == p

\* FSHelper.replace_file_extention(file_path, ext): <dir>/<name><ext>
replace_file_extention(p, ext) == [dir |-> p.dir, name |-> p.name, ext |-> ext]

\* ImageTranscoder.transcode_image lines 242-245: <dir>/<name>.avif
avif_path(p) == [dir |-> p.dir, name |-> p.name, ext |-> ".avif"]

IdleImg == [run |-> 1, phase |-> "idle", images |-> <<>>, files |-> <<>>,
            tasks |-> <<>>, counter |-> NewCounter(0), run1_failed |-> FALSE]

ImgOne    == [EmptyDir EXCEPT ![photo_jpg] = Data]
ImgDone   == [EmptyDir EXCEPT ![photo_jpg] = Data, ![photo_avif] = Data]
ImgNested == [EmptyDir EXCEPT ![photo_jpg] = Data, ![sub_a_jpg] = Data,
                              ![sub_b_jpg] = Data, ![sub_a_avif] = Data]

ImgShared == [EmptyDir EXCEPT ![photo_jpg] = Data, ![photo_png] = Data]

ImageDirectories == {ImgOne, ImgDone, ImgNested, ImgShared}

\* App.transcode_images lines 122-127: the files with no sibling .avif
RECURSIVE NeedEncoding(_)
NeedEncoding(files) ==
    IF files = <<>> THEN <<>>
    ELSE IF ~Exists(replace_file_extention(Head(files), ".avif"))
         THEN <<Head(files)>> \o NeedEncoding(Tail(files))
         ELSE NeedEncoding(Tail(files))

ImgRunning == {t \in 1..Len(img.tasks) : img.tasks[t].pc = "avifenc"}

\* App.transcode_images_in_directory, App.transcode_images and
\* ImageTranscoder.transcode_images lines 251-255: enumerate the images, keep those
\* without a sibling, start the counter, submit one task per kept file
transcode_images_in_directory ==
    /\ img.phase = "init"
    /\ LET images == extract_files(fs, IMAGE_EXTENSIONS)
           files == NeedEncoding(images)
       IN img' = [img EXCEPT !.phase = "pool", !.images = images, !.files = files,
                             !.counter = start(img.counter, Len(files), NoDuration, now),
                             !.tasks = [t \in 1..Len(files) |->
                                          [pc |-> "queued", path |-> files[t],
                                           err |-> "none"]]]
    /\ UNCHANGED <<videoVars, splitVars, counterVars, val, callVars, apiVars>>

\* a pool thread takes the next task: transcode_image, and
\* transcode_image_to_avif lines 230-236 up to the start of avifenc
IStart(t) ==
    /\ img.phase = "pool"
    /\ t \in 1..Len(img.tasks)
    /\ img.tasks[t].pc = "queued"
    /\ \A u \in 1..(t - 1) : img.tasks[u].pc # "queued"
    /\ Cardinality(ImgRunning) < ImagePool
    /\ img' = [img EXCEPT !.tasks[t].pc = "avifenc"]
    /\ UNCHANGED <<videoVars, splitVars, counterVars, val, callVars, apiVars>>

\* transcode_image_to_avif lines 236-239: avifenc ends.  With exit status 0 it has
\* written the output, and the counter is incremented; with another status
\* subprocess.run(check=True) raises CalledProcessError in the task.
IAvifenc(t) ==
    /\ img.phase = "pool"
    /\ t \in 1..Len(img.tasks)
    /\ img.tasks[t].pc = "avifenc"
    /\ \E status \in {0, 1} :
         IF status = 0
         THEN /\ fs' = [fs EXCEPT ![avif_path(img.tasks[t].path)] = Data]
              /\ img' = [img EXCEPT !.tasks[t].pc = "done",
                                    !.counter = increment(img.counter, NoDuration)]
         ELSE /\ fs' = fs
              /\ img' = [img EXCEPT !.tasks[t].pc = "raised",
                                    !.tasks[t].err = "CalledProcessError"]
    /\ UNCHANGED <<splitVars, counterVars, val, callVars, apiVars, db, failed, vcounter, scan, th, eng, proc,
                   app, probes, hist>>

\* ImageTranscoder.transcode_images lines 254-255: leaving the "with" block waits
\* for the pool; the iterator of executor.map is never read, so a task's exception
\* is not re-raised, and the call returns
ImagePoolDone ==
    /\ img.phase = "pool"
    /\ \A t \in 1..Len(img.tasks) : img.tasks[t].pc \in {"done", "raised"}
    /\ img' = [img EXCEPT !.phase = "returned"]
    /\ UNCHANGED <<videoVars, splitVars, counterVars, val, callVars, apiVars>>

\* transcode_images_in_directory is called again over the same directory
ImageSecondRun ==
    /\ img.run = 1
    /\ img.phase = "returned"
    /\ img' = [img EXCEPT !.run = 2, !.phase = "init",
                          !.run1_failed = \E t \in 1..Len(img.tasks) :
                                             img.tasks[t].pc = "raised"]
    /\ UNCHANGED <<videoVars, splitVars, counterVars, val, callVars, apiVars>>

----------------------------------------------------------------------------
(* TaskCounter.progress and ConsoleUtils.progress_bar_string as functions *)

MaxCount == 10               \* counts and totals tried
MaxNum == 6                  \* numerators of the fractions tried, from -MaxNum
MaxDen == 3                  \* denominators of the fractions tried
MaxWidth == 4                \* bar widths tried

\* TaskCounter.progress: self.count / self.total, a quotient num/den; Python
\* raises ZeroDivisionError for a zero divisor
progress(c) ==
    IF c.total = 0 THEN [kind |-> "raise", err |-> "ZeroDivisionError"]
    ELSE [kind |-> "value", num |-> c.count, den |-> c.total]

IdlePg == [pc |-> "idle", c |-> NewCounter(0), result |-> [kind |-> "none"]]

\* counter.progress() on a counter started with some total and incremented some
\* number of times
ProgressCall ==
    /\ pg.pc = "call"
    /\ LET r == progress(pg.c) IN
       pg' = [pg EXCEPT !.pc = IF r.kind = "raise" THEN "raised" ELSE "returned",
                        !.result = r]
    /\ UNCHANGED <<videoVars, splitVars, counterVars, val, img, bar, con, apiVars>>

\* 'c' * n of Python: the empty string for n <= 0
RECURSIVE Repeat(_, _)
Repeat(c, n) == IF n <= 0 THEN <<>> ELSE <<c>> \o Repeat(c, n - 1)

\* min(max(progress, 0), 1) of a fraction num/den, den > 0
Clamp(f) ==
    IF f.num < 0 THEN [num |-> 0, den |-> 1]
    ELSE IF f.num > f.den THEN [num |-> 1, den |-> 1]
    ELSE f

\* ConsoleUtils.progress_bar_string without the clamp of line 40
progress_bar_string_unclamped(f, max_length) ==
    LET num_hashes == (f.num * max_length) \div f.den
    IN Repeat("#", num_hashes) \o Repeat(".", max_length - num_hashes)

\* ConsoleUtils.progress_bar_string(progress, max_length); int() of a value that
\* is not negative is the floor
progress_bar_string(f, max_length) ==
    LET value == Clamp(f)
        num_hashes == (value.num * max_length) \div value.den
    IN Repeat("#", num_hashes) \o Repeat(".", max_length - num_hashes)

IdleBar == [pc |-> "idle", f |-> [num |-> 0, den |-> 1], width |-> 0, result |-> <<>>]

BarCall ==
    /\ bar.pc = "call"
    /\ bar' = [bar EXCEPT !.pc = "returned",
                          !.result = progress_bar_string(bar.f, bar.width)]
    /\ UNCHANGED <<videoVars, splitVars, counterVars, val, img, pg, con, apiVars>>

----------------------------------------------------------------------------
(* The terminal, and the renders of ConsoleUtils and TaskCounter.report_progress *)

ConWidth == 3                \* columns of the terminal
ConHeight == 4               \* rows of the terminal
MaxBlock == 2                \* lines of one render
MaxRenders == 2              \* renders printed one after the other

UP == "UP"                   \* "\x1b[A": the cursor moves up one row
CLEAR == "CLEAR"             \* "\x1b[2K": the row of the cursor is erased
REWIND == "CR"               \* "\r": the cursor moves to the first column
NEWLINE == "NL"              \* "\n": the cursor moves to the start of the next row

\* the character that render k writes, and the blank cell
Glyphs == <<"a", "b", "c", "d">>
Glyph(k) == Glyphs[k]
Blank == " "

BlankRow == [c \in 1..ConWidth |-> Blank]

\* a terminal: cells are blank or hold the character of the render that wrote them;
\* col = ConWidth + 1 is the cursor waiting after the last column of a row
NewTerm(r) ==
    [screen |-> [i \in 1..ConHeight |-> BlankRow], row |-> r, col |-> 1,
     scrolled |-> 0, cleared |-> {}, dirty |-> FALSE, wrapped |-> FALSE]

\* the cursor moves one row down; on the last row the screen scrolls instead
TermDown(t) ==
    IF t.row < ConHeight THEN [t EXCEPT !.row = @ + 1]
    ELSE [t EXCEPT !.screen = [i \in 1..ConHeight |->
                                  IF i < ConHeight THEN t.screen[i + 1] ELSE BlankRow],
                   !.scrolled = @ + 1,
                   !.cleared = {i - 1 : i \in t.cleared}]

\* the terminal receives one byte of output (a control code or a character)
TermByte(t, b) ==
    CASE b = CLEAR -> [t EXCEPT !.screen[t.row] = BlankRow,
                                !.cleared = @ \cup {t.row}]
      [] b = NEWLINE -> [TermDown(t) EXCEPT !.col = 1]
      [] b = UP -> [t EXCEPT !.row = IF @ > 1 THEN @ - 1 ELSE @,
                             !.col = IF @ > ConWidth THEN ConWidth ELSE @]
      [] b = REWIND -> [t EXCEPT !.col = 1]
      [] OTHER ->
            LET w == IF t.col > ConWidth THEN [TermDown(t) EXCEPT !.col = 1] ELSE t
            IN [w EXCEPT !.screen[w.row][w.col] = b,
                         !.col = @ + 1,
                         !.dirty = @ \/ w.row \notin w.cleared,
                         !.wrapped = @ \/ t.col > ConWidth]

RECURSIVE TermFeed(_, _)
TermFeed(t, bytes) ==
    IF bytes = <<>> THEN t ELSE TermFeed(TermByte(t, Head(bytes)), Tail(bytes))

RECURSIVE Builder(_)
Builder(lines) ==
    IF lines = <<>> THEN <<>>
    ELSE <<CLEAR>> \o Head(lines) \o <<NEWLINE>> \o Builder(Tail(lines))

\* ConsoleUtils.print_multiline: the bytes printed
print_multiline(lines, do_rewind) ==
    Builder(lines) \o (IF do_rewind THEN Repeat(UP, Len(lines)) \o <<REWIND>>
                       ELSE <<NEWLINE>>)

\* the render of TaskCounter.report_progress: custom_strings, then the progress
\* line, which ends with "\r"
report_render(custom_strings, progress_display) ==
    LET lines == custom_strings \o <<progress_display \o <<REWIND>> >>
    IN Builder(lines) \o Repeat(UP, Len(lines)) \o <<REWIND>>

\* the texts of the lines of render k: k lines of every length up to one more
\* than fits in a row
LineTexts(k) == {Repeat(Glyph(k), len) : len \in 0..(ConWidth + 1)}
LineLists(k) == UNION {[1..n -> LineTexts(k)] : n \in 1..MaxBlock}

IdleCon == [pc |-> "idle", term |-> NewTerm(1), blocks |-> <<>>]

\* one print: the terminal takes the bytes; blocks remembers who printed, the
\* number of lines,
\* whether the render rewinds, the row that holds the first line afterwards, and
\* whether a character went to a row not cleared by this render, and whether a
\* line ran past the last column into the next row
ConPrint(by, bytes, n, rewinds) ==
    /\ con.pc = "on" /\ Len(con.blocks) < MaxRenders
    /\ LET t0 == [con.term EXCEPT !.scrolled = 0, !.cleared = {}, !.dirty = FALSE,
                                      !.wrapped = FALSE]
           t1 == TermFeed(t0, bytes)
       IN con' = [con EXCEPT !.term = t1,
                             !.blocks = Append(@, [by |-> by, n |-> n, rewinds |-> rewinds,
                                                   top |-> t0.row - t1.scrolled,
                                                   dirty |-> t1.dirty,
                                                   wrapped |-> t1.wrapped])]
    /\ UNCHANGED <<videoVars, splitVars, counterVars, val, img, pg, bar, apiVars>>

ConPrintMultiline ==
    \E lines \in LineLists(Len(con.blocks) + 1), do_rewind \in BOOLEAN :
        ConPrint("print_multiline", print_multiline(lines, do_rewind), Len(lines), do_rewind)

ConReportProgress ==
    \E lines \in LineLists(Len(con.blocks) + 1) :
        ConPrint("report_progress",
                 report_render(SubSeq(lines, 1, Len(lines) - 1), lines[Len(lines)]),
                 Len(lines), TRUE)


----------------------------------------------------------------------------
(* TaskCounter as a component: increment and time_report called by one thread *)

MaxEstCount == 3             \* increments of the counter
MaxEstClock == 3             \* ticks of the clock after start
MaxEstCalls == 3             \* calls of time_report

\* a counter built with TaskCounter(interval, subunits) and started at time 0
StartedCounter(subunits, total, subunits_total) ==
    start([NewCounter(ReportInterval) EXCEPT !.subunits = subunits],
          total, subunits_total, 0)

\* the values of "progress = time_value - last_progress" (transcoding.py:149), the
\* subunits that the engine hands to increment: time_value is a parsed marker, or
\* 0.0 for a line with "time=" and no parsable value
EngineDeltas == {t - l : t \in 0..MaxTime, l \in 0..MaxTime}

IdleEst ==
    [pc |-> "idle", c |-> NewCounter(ReportInterval), clock |-> 0, calls |-> 0,
     last |-> [text |-> [kind |-> "none"], before |-> NewCounter(ReportInterval),
               at |-> 0]]

\* counter.increment(subunits=d)
EstIncrement ==
    /\ est.pc = "on" /\ est.c.count < MaxEstCount
    /\ \E d \in EngineDeltas :
         est' = [est EXCEPT !.c = increment(est.c, d)]
    /\ UNCHANGED <<videoVars, splitVars, counterVars, val, img, callVars, lk>>

\* time.time() advances
EstTick ==
    /\ est.pc = "on" /\ est.clock < MaxEstClock
    /\ est' = [est EXCEPT !.clock = @ + 1]
    /\ UNCHANGED <<videoVars, splitVars, counterVars, val, img, callVars, lk>>

\* counter.time_report(); last remembers the text returned, the counter before the
\* call and the time of the call
EstTimeReport ==
    /\ est.pc = "on" /\ est.calls < MaxEstCalls
    /\ LET r == time_report(est.c, est.clock) IN
       est' = [est EXCEPT !.c = r.c, !.calls = @ + 1,
                          !.last = [text |-> r.text, before |-> est.c,
                                    at |-> est.clock]]
    /\ UNCHANGED <<videoVars, splitVars, counterVars, val, img, callVars, lk>>

----------------------------------------------------------------------------
(* The mutexes: TaskCounter.lock, VideoTranscoder.lock and FSHelper.lock, with
   every acquire and release a step of its own.  A worker is the list of the
   steps it still has to take. *)

LkWorkers == 2               \* worker threads of one pool
LkKeys == {"a", "b"}         \* the paths probed, or the directories copied into

Op(o) == [op |-> o, skip |-> 0]
\* a step that may return early: it then skips the n steps that follow
SkipOp(o, n) == [op |-> o, skip |-> n]

\* TaskCounter.increment: the body under self.lock
increment_ops == <<Op("acq_counter"), Op("count_rmw"), Op("rel_counter")>>

\* TaskCounter.time_report lines 92-103: the estimate under self.lock
time_report_ops == <<Op("acq_counter"), Op("estimate"), Op("rel_counter")>>

\* report_progress lines 84-85 with the lines written outside the lock
print_ops_unlocked == <<Op("print1"), Op("print2")>>

\* report_progress lines 84-85: the block (the custom line, then the progress
\* line) written under self.lock
print_ops == <<Op("acq_counter"), Op("print1"), Op("print2"), Op("rel_counter")>>

\* TaskCounter.report_progress: the interval test with its early return, the
\* estimate, the print
report_progress_ops ==
    <<SkipOp("interval", Len(time_report_ops) + Len(print_ops))>>
        \o time_report_ops \o print_ops

\* get_video_info lines 37-89 with the lock taken before ffprobe is run
probe_ops_locked ==
    <<Op("acq_cache"), Op("run"), Op("wait_run"), Op("insert"), Op("rel_cache")>>

\* get_video_info lines 37-89: subprocess.run of ffprobe, then the insert under
\* self.lock
probe_ops ==
    <<Op("run"), Op("wait_run"), Op("acq_cache"), Op("insert"), Op("rel_cache")>>

\* VideoTranscoder.get_video_info: the lookup under self.lock with its early
\* return, then the probe
get_video_info_ops ==
    <<Op("acq_cache"), Op("lookup"), Op("rel_cache"),
      SkipOp("return_if_hit", Len(probe_ops))>> \o probe_ops

\* transfer_file lines 108-117 without the lock
transfer_file_ops_unlocked == <<Op("exists"), Op("makedirs"), Op("copy")>>

\* FSHelper.transfer_file lines 108-117: under self.lock the exists-check and
\* os.makedirs, then shutil.copy2
transfer_file_ops ==
    <<Op("acq_fs"), Op("exists"), Op("makedirs"), Op("rel_fs"), Op("copy")>>

\* App._preprocess_movie_file, for a file that is probed
preprocess_ops == increment_ops \o report_progress_ops \o get_video_info_ops

\* ImageTranscoder.transcode_image_to_avif: subprocess.run(avifenc, check=True),
\* then the counter
image_ops == <<Op("run"), Op("wait_run_checked")>> \o increment_ops \o report_progress_ops

\* App._move_single_split_file, for a file that is not a movie
split_ops == transfer_file_ops \o increment_ops \o report_progress_ops

\* run_ffmpeg_and_process_progress lines 152-154 and 158-159: the call of
\* counter.increment with keywords, which binds or raises, and the report
engine_report_ops == <<Op("bind")>> \o increment_ops \o report_progress_ops

\* run_ffmpeg_and_process_progress: get_video_info, Popen, the read loop,
\* process.wait() and the last increment
engine_ops ==
    get_video_info_ops \o <<Op("popen"), Op("readline"), Op("wait")>>
        \o engine_report_ops

LkKinds == {"scan", "image", "split", "engine"}

LkProgram(kind) ==
    CASE kind = "scan" -> preprocess_ops
      [] kind = "image" -> image_ops
      [] kind = "split" -> split_ops
      [] kind = "engine" -> engine_ops

LkThread(kind, key) ==
    [todo |-> LkProgram(kind), key |-> key, ext |-> "none", status |-> 0,
     hit |-> FALSE, exists |-> FALSE, nlines |-> 0, err |-> "none"]

\* no worker, no lock held, nothing printed
IdleLk ==
    [kind |-> "none",
     w |-> [t \in 1..LkWorkers |-> [LkThread("scan", "a") EXCEPT !.todo = <<>>]],
     counter |-> 0, cache |-> 0, fsl |-> 0,
     count |-> 0, db |-> {}, dirs |-> {}, made |-> [k \in LkKeys |-> 0],
     copied |-> 0, out |-> <<>>]

\* the remaining steps after an early return
RECURSIVE Drop(_, _)
Drop(seq, n) == IF n = 0 \/ seq = <<>> THEN seq ELSE Drop(Tail(seq), n - 1)

\* an exception leaves the "with" blocks of the worker: its locks are released
LkRaise(t, e) ==
    [lk EXCEPT !.w[t].todo = <<>>, !.w[t].err = e,
               !.counter = IF @ = t THEN 0 ELSE @,
               !.cache = IF @ = t THEN 0 ELSE @,
               !.fsl = IF @ = t THEN 0 ELSE @]

\* worker t takes its next step
LkStep(t) ==
    /\ lk.kind # "none" /\ lk.w[t].todo # <<>>
    /\ LET me == lk.w[t]
           o == Head(me.todo)
           next == [lk EXCEPT !.w[t].todo = Tail(@)]
       IN
       CASE o.op = "acq_counter" ->
              lk.counter = 0 /\ lk' = [next EXCEPT !.counter = t]
         [] o.op = "rel_counter" -> lk' = [next EXCEPT !.counter = 0]
         [] o.op = "acq_cache" ->
              lk.cache = 0 /\ lk' = [next EXCEPT !.cache = t]
         [] o.op = "rel_cache" -> lk' = [next EXCEPT !.cache = 0]
         [] o.op = "acq_fs" ->
              lk.fsl = 0 /\ lk' = [next EXCEPT !.fsl = t]
         [] o.op = "rel_fs" -> lk' = [next EXCEPT !.fsl = 0]
         [] o.op = "count_rmw" -> lk' = [next EXCEPT !.count = @ + 1]
         [] o.op = "estimate" -> lk' = next
         [] o.op = "interval" ->
              (\E early \in BOOLEAN :
                 lk' = IF early THEN [lk EXCEPT !.w[t].todo = Drop(Tail(@), o.skip)]
                       ELSE next)
         [] o.op = "print1" ->
              lk' = [next EXCEPT !.out = Append(@, [t |-> t, line |-> 1])]
         [] o.op = "print2" ->
              lk' = [next EXCEPT !.out = Append(@, [t |-> t, line |-> 2])]
         [] o.op = "lookup" -> lk' = [next EXCEPT !.w[t].hit = me.key \in lk.db]
         [] o.op = "return_if_hit" ->
              lk' = IF me.hit THEN [lk EXCEPT !.w[t].todo = Drop(Tail(@), o.skip)]
                    ELSE next
         [] o.op \in {"run", "popen"} -> lk' = [next EXCEPT !.w[t].ext = "running"]
         [] o.op = "wait_run" ->
              me.ext = "exited" /\ lk' = [next EXCEPT !.w[t].ext = "none"]
         [] o.op = "wait_run_checked" ->
              /\ me.ext = "exited"
              /\ lk' = IF me.status = 0 THEN [next EXCEPT !.w[t].ext = "none"]
                       ELSE [LkRaise(t, "CalledProcessError") EXCEPT !.w[t].ext = "none"]
         [] o.op = "insert" -> lk' = [next EXCEPT !.db = @ \cup {me.key}]
         [] o.op = "exists" -> lk' = [next EXCEPT !.w[t].exists = me.key \in lk.dirs]
         [] o.op = "makedirs" ->
              lk' = IF me.exists THEN next
                    ELSE IF me.key \in lk.dirs THEN LkRaise(t, "FileExistsError")
                    ELSE [next EXCEPT !.dirs = @ \cup {me.key},
                                      !.made[me.key] = @ + 1]
         [] o.op = "copy" ->
              lk' = IF me.key \in lk.dirs THEN [next EXCEPT !.copied = @ + 1]
                    ELSE LkRaise(t, "FileNotFoundError")
         [] o.op = "readline" ->
              (\E line \in {"time", "other", "eof", "failed"} :
                 /\ line = "eof" => me.ext = "exited"
                 /\ line # "eof" => me.nlines < MaxLines
                 /\ lk' = IF line \in {"eof", "failed"} THEN next
                          ELSE IF line = "other" THEN [lk EXCEPT !.w[t].nlines = @ + 1]
                          ELSE [lk EXCEPT !.w[t].nlines = @ + 1,
                                          !.w[t].todo = engine_report_ops \o @])
         [] o.op = "wait" ->
              me.ext = "exited" /\ lk' = [next EXCEPT !.w[t].ext = "none"]
         [] o.op = "bind" ->
              lk' = IF IncrementBinds(EngineIncrementKeywords) THEN next
                    ELSE LkRaise(t, "TypeError")
    /\ UNCHANGED <<videoVars, splitVars, counterVars, val, img, callVars, est>>

\* an external process (ffprobe, avifenc, ffmpeg) exits, on its own schedule; the
\* exit status matters for avifenc only, which is run with check=True
LkExit(t) ==
    /\ lk.kind # "none" /\ lk.w[t].ext = "running"
    /\ \E status \in (IF lk.kind = "image" THEN {0, 1} ELSE {0}) :
         lk' = [lk EXCEPT !.w[t].ext = "exited", !.w[t].status = status]
    /\ UNCHANGED <<videoVars, splitVars, counterVars, val, img, callVars, est>>

ApiIdle == est = IdleEst /\ lk = IdleLk

CallsIdle == pg = IdlePg /\ bar = IdleBar /\ con = IdleCon /\ ApiIdle

----------------------------------------------------------------------------
(* Specifications *)

VideoIdle ==
    /\ db = [p \in AllPaths |-> NoEntry]
    /\ failed = <<>>
    /\ vcounter = NewCounter(ReportInterval)
    /\ scan = NewCounter(ReportInterval)
    /\ th = [t \in Threads |-> IdleThread]
    /\ eng = IdleEngine
    /\ proc = NoProc
    /\ probes = [p \in AllPaths |-> 0]

SplitIdle == dst = EmptyDst /\ dirs = {}

CounterIdle ==
    /\ tc = NewCounter(ReportInterval)
    /\ now = 0
    /\ tw = [w \in Workers |-> IdleWorker]
    /\ renders = <<>>
    /\ requested = 0

\* the video engine: an App over one of the directories, about to run
\* transcode_movies_in_directory
Init ==
    /\ fs \in Directories
    /\ hist = [dir |-> fs, fsRun1 |-> EmptyDir, run1 |-> "none", same |-> FALSE]
    /\ app = [run |-> 1, phase |-> "init", files |-> <<>>, err |-> "none"]
    /\ VideoIdle /\ SplitIdle /\ CounterIdle /\ val = IdleVal /\ img = IdleImg /\ CallsIdle

Next ==
    \/ transcode_movies_in_directory
    \/ \E t \in Tasks : WStart(t) \/ WRemove(t) \/ WExists2(t)
    \/ \E t \in Threads : GCheck(t) \/ GProbe(t) \/ GSave(t)
    \/ ScanDone
    \/ VLoop
    \/ VPopen
    \/ ProcExit
    \/ VReadline
    \/ VWait
    \/ SecondRun

Spec == Init /\ [][Next]_vars

\* split_directory: an App over one of the split directories
InitSplit ==
    /\ fs \in SplitDirectories
    /\ hist = [dir |-> fs, fsRun1 |-> EmptyDir, run1 |-> "none", same |-> FALSE]
    /\ app = [run |-> 1, phase |-> "split_init", files |-> <<>>, err |-> "none"]
    /\ VideoIdle /\ SplitIdle /\ CounterIdle /\ val = IdleVal /\ img = IdleImg /\ CallsIdle

NextSplit ==
    \/ split_directory
    \/ \E t \in Tasks : SStart(t) \/ STransfer(t) \/ SCopy(t)
    \/ \E t \in Tasks : GCheck(t) \/ GProbe(t) \/ GSave(t)
    \/ SplitDone

SpecSplit == InitSplit /\ [][NextSplit]_vars

\* a TaskCounter just started, by a pool of threads (interval 0.1 s as in
\* App and VideoTranscoder, or 0 as in ImageTranscoder)
InitCounter ==
    /\ \E interval \in {0, ReportInterval} :
         tc = start(NewCounter(interval), NumWorkers * MaxUnits, NoDuration, 0)
    /\ now = 0
    /\ tw = [w \in Workers |-> IdleWorker]
    /\ renders = <<>>
    /\ requested = 0
    /\ fs = EmptyDir
    /\ hist = [dir |-> fs, fsRun1 |-> EmptyDir, run1 |-> "none", same |-> FALSE]
    /\ app = [run |-> 1, phase |-> "counter", files |-> <<>>, err |-> "none"]
    /\ VideoIdle /\ SplitIdle /\ val = IdleVal /\ img = IdleImg /\ CallsIdle

NextCounter ==
    \/ \E w \in Workers : Work(w) \/ RTime(w) \/ RCheck(w) \/ RSet(w) \/ RCompose(w) \/ RPrint(w)
    \/ Tick

SpecCounter == InitCounter /\ [][NextCounter]_vars

\* check_transcoding_validity over every pair of probed durations
InitValidity ==
    /\ val \in [pc : {"call"}, d1 : 0..MaxDuration, d2 : 0..MaxDuration,
                valid : {FALSE}, duration : {NoDuration}]
    /\ fs = EmptyDir
    /\ hist = [dir |-> fs, fsRun1 |-> EmptyDir, run1 |-> "none", same |-> FALSE]
    /\ app = [run |-> 1, phase |-> "validity", files |-> <<>>, err |-> "none"]
    /\ VideoIdle /\ SplitIdle /\ CounterIdle /\ img = IdleImg /\ CallsIdle

NextValidity == CheckValidity

SpecValidity == InitValidity /\ [][NextValidity]_vars

\* VideoTranscoder.transcode_movies called directly on a list of movie files of
\* the directory (no classification pass before it), with the sum of their
\* durations as total_duration
MovieFiles(f) == extract_files(f, MOVIE_EXTENSIONS)

\* a video without an audio stream, and one for which the probe reports no
\* duration
DirSilent     == [EmptyDir EXCEPT ![clip_mp4] = File(100, "h264", "None")]
DirNoDuration == [EmptyDir EXCEPT ![clip_mp4] = File(0, "h264", "aac")]

EngineDirectories == Directories \cup {DirSilent, DirNoDuration}

EngineBatches(f) ==
    LET m == MovieFiles(f) IN
    {<<>>} \cup {<<m[i]>> : i \in 1..Len(m)}
           \cup {b \in {<<m[i], m[j]>> : i, j \in 1..Len(m)} : b[1] # b[2]}

RECURSIVE SumDurations(_, _)
SumDurations(f, batch) ==
    IF batch = <<>> THEN 0 ELSE f[Head(batch)].dur + SumDurations(f, Tail(batch))

InitEngine ==
    /\ fs \in EngineDirectories
    /\ hist = [dir |-> fs, fsRun1 |-> EmptyDir, run1 |-> "none", same |-> FALSE]
    /\ app = [run |-> 1, phase |-> "encode", files |-> <<>>, err |-> "none"]
    /\ db = [p \in AllPaths |-> NoEntry]
    /\ failed = <<>>
    /\ scan = NewCounter(ReportInterval)
    /\ proc = NoProc
    /\ probes = [p \in AllPaths |-> 0]
    /\ th = [t \in Threads |-> IF t = 0 THEN [IdleThread EXCEPT !.pc = "loop"]
                                         ELSE IdleThread]
    /\ \E batch \in EngineBatches(fs) :
         /\ eng = [IdleEngine EXCEPT !.batch = batch,
                                     !.total_duration = SumDurations(fs, batch)]
         /\ vcounter = start(NewCounter(ReportInterval), Len(batch),
                             SumDurations(fs, batch), 0)
    /\ SplitIdle /\ CounterIdle /\ val = IdleVal /\ img = IdleImg /\ CallsIdle

NextEngine ==
    \/ VLoop
    \/ GCheck(0) \/ GProbe(0) \/ GSave(0)
    \/ VPopen
    \/ ProcExit
    \/ VReadline
    \/ VWait

SpecEngine == InitEngine /\ [][NextEngine]_vars

\* the image engine: an App over one of the image directories, about to run
\* transcode_images_in_directory
InitImage ==
    /\ fs \in ImageDirectories
    /\ hist = [dir |-> fs, fsRun1 |-> EmptyDir, run1 |-> "none", same |-> FALSE]
    /\ app = [run |-> 1, phase |-> "image", files |-> <<>>, err |-> "none"]
    /\ img = [IdleImg EXCEPT !.phase = "init"]
    /\ VideoIdle /\ SplitIdle /\ CounterIdle /\ val = IdleVal /\ CallsIdle

NextImage ==
    \/ transcode_images_in_directory
    \/ \E t \in Tasks : IStart(t) \/ IAvifenc(t)
    \/ ImagePoolDone
    \/ ImageSecondRun

SpecImage == InitImage /\ [][NextImage]_vars

OthersIdle ==
    /\ fs = EmptyDir
    /\ hist = [dir |-> fs, fsRun1 |-> EmptyDir, run1 |-> "none", same |-> FALSE]
    /\ VideoIdle /\ SplitIdle /\ CounterIdle /\ val = IdleVal /\ img = IdleImg
    /\ ApiIdle

RECURSIVE Incremented(_, _)
Incremented(c, n) == IF n = 0 THEN c ELSE Incremented(increment(c, NoDuration), n - 1)

\* TaskCounter.progress over counters started with a total and incremented
InitProgress ==
    /\ \E total \in 0..MaxCount, count \in 0..MaxCount :
         pg = [IdlePg EXCEPT !.pc = "call",
                             !.c = Incremented(start(NewCounter(0), total, NoDuration, 0),
                                               count)]
    /\ bar = IdleBar /\ con = IdleCon
    /\ app = [run |-> 1, phase |-> "progress", files |-> <<>>, err |-> "none"]
    /\ OthersIdle

NextProgress == ProgressCall

SpecProgress == InitProgress /\ [][NextProgress]_vars

\* progress_bar_string over fractions below 0, within [0, 1] and above 1
InitBar ==
    /\ bar \in [pc : {"call"}, f : [num : (0 - MaxNum)..MaxNum, den : 1..MaxDen],
                width : 0..MaxWidth, result : {<<>>}]
    /\ pg = IdlePg /\ con = IdleCon
    /\ app = [run |-> 1, phase |-> "bar", files |-> <<>>, err |-> "none"]
    /\ OthersIdle

NextBar == BarCall

SpecBar == InitBar /\ [][NextBar]_vars

\* renders printed to a terminal whose cursor starts in the first column of a row
InitConsole ==
    /\ \E r \in 1..ConHeight : con = [IdleCon EXCEPT !.pc = "on", !.term = NewTerm(r)]
    /\ pg = IdlePg /\ bar = IdleBar
    /\ app = [run |-> 1, phase |-> "console", files |-> <<>>, err |-> "none"]
    /\ OthersIdle

NextConsole == ConPrintMultiline \/ ConReportProgress

SpecConsole == InitConsole /\ [][NextConsole]_vars

\* a TaskCounter of either kind (subunits disabled, as every counter of the
\* program, or enabled), started with 4 units and 6 subunits
InitEstimate ==
    /\ \E subunits \in BOOLEAN :
         est = [IdleEst EXCEPT !.pc = "on", !.c = StartedCounter(subunits, 4, 6)]
    /\ lk = IdleLk
    /\ pg = IdlePg /\ bar = IdleBar /\ con = IdleCon
    /\ app = [run |-> 1, phase |-> "counter", files |-> <<>>, err |-> "none"]
    /\ fs = EmptyDir
    /\ hist = [dir |-> fs, fsRun1 |-> EmptyDir, run1 |-> "none", same |-> FALSE]
    /\ VideoIdle /\ SplitIdle /\ CounterIdle /\ val = IdleVal /\ img = IdleImg

NextEstimate == EstIncrement \/ EstTick \/ EstTimeReport

SpecEstimate == InitEstimate /\ [][NextEstimate]_vars

\* the workers of one pool (the scan of App.transcode_movies, the image pool, the
\* split) or the calling thread alone in the video engine; each with the path it
\* probes or the directory it copies into, which may exist already
InitLocks ==
    /\ \E kind \in LkKinds, keys \in [1..LkWorkers -> LkKeys], d \in SUBSET {"a"} :
         \* the image workers use no key, and only the split uses directories
         /\ kind = "image" => \A t \in 1..LkWorkers : keys[t] = "a"
         /\ kind # "split" => d = {}
         /\ lk = [IdleLk EXCEPT
                   !.kind = kind, !.dirs = d,
                   !.w = [t \in 1..LkWorkers |->
                            IF kind = "engine" /\ t > 1
                            THEN [LkThread(kind, "a") EXCEPT !.todo = <<>>]
                            ELSE LkThread(kind, keys[t])]]
    /\ est = IdleEst
    /\ pg = IdlePg /\ bar = IdleBar /\ con = IdleCon
    /\ app = [run |-> 1, phase |-> "locks", files |-> <<>>, err |-> "none"]
    /\ fs = EmptyDir
    /\ hist = [dir |-> fs, fsRun1 |-> EmptyDir, run1 |-> "none", same |-> FALSE]
    /\ VideoIdle /\ SplitIdle /\ CounterIdle /\ val = IdleVal /\ img = IdleImg

NextLocks == \E t \in 1..LkWorkers : LkStep(t) \/ LkExit(t)

SpecLocks == InitLocks /\ [][NextLocks]_vars

----------------------------------------------------------------------------
(* Claims about the video engine, under Spec *)

\* C1 (as claimed): once a first run of transcode_movies_in_directory has returned,
\* a second run over the same directory (on the same or on a new App) proposes no
\* encode job, deletes no file and leaves the set of files as the first run left it.
C1_Idempotent ==
    (app.run = 2 /\ hist.run1 = "returned") =>
        /\ \A t \in Tasks : th[t].result # "encode"
        /\ fs = hist.fsRun1

\* C2 (as claimed): over the lifetime of one VideoTranscoder the external probe is
\* invoked at most once per distinct path, for every interleaving of the callers.
C2_AtMostOneProbe == \A p \in AllPaths : probes[p] <= 1

\* C6: the decision of _preprocess_movie_file.  At the step where a task returns,
\* the file is proposed for encoding exactly when its path carries no "_AV1"
\* marker, no file exists at its candidate output path, and its probed video codec
\* (the cache entry of its path) is neither av1 nor hevc; a marked file returns
\* without any call of get_video_info; a file skipped for its valid candidate
\* returns without reaching the codec lookup of line 67.  And a directory holding
\* only movie.mp4 (h264) hands the engine exactly the batch <<movie.mp4>>, whose
\* output path is movie_AV1.mp4.
C6_Returns(t) ==
    (th[t].pc # "done" /\ th'[t].pc = "done") =>
        /\ (th'[t].result = "encode") <=>
              /\ ~HasMarker(th[t].path)
              /\ ~Exists(Candidate(t))
              /\ db'[th[t].path].kind = "info"
              /\ db'[th[t].path].video_codec \notin {"av1", "hevc"}
        /\ HasMarker(th[t].path) => th'[t].calls = 0 /\ th'[t].result = "skip_marked"
        /\ th'[t].result = "skip_valid" => th'[t].codec = "unprobed"

C6_SingleMovie ==
    (hist.dir = DirSingle /\ app.run = 1 /\ app.phase = "encode") =>
        /\ eng.batch = <<movie_mp4>>
        /\ transcoded_movie_path(eng.batch[1]) = movie_AV1_mp4

C6_Decision == [](C6_SingleMovie) /\ [][\A t \in Tasks : C6_Returns(t)]_vars

\* C6 witness: the single h264 movie.mp4, with no candidate on disk, has been
\* classified as an encode job and handed to the engine
C6_Witness ==
    /\ hist.dir = DirSingle /\ app.run = 1 /\ app.phase = "encode"
    /\ \E t \in Tasks : th[t].result = "encode" /\ th[t].seen64 = "no"

\* C7 (as claimed): during one classification pass a candidate judged valid for
\* its source is never deleted and that source is skipped; a candidate judged
\* invalid is gone once its source has passed the removal.
C7_CandidateHandling ==
    app.phase = "scan" =>
        \A t \in Tasks :
            /\ th[t].valid = "yes" =>
                  /\ Exists(Candidate(t))
                  /\ th[t].pc = "done" => th[t].result = "skip_valid"
            /\ (th[t].valid = "no" /\ th[t].pc \in {"exists2", "done"}) =>
                  ~Exists(Candidate(t))

\* C9 (as claimed): every encoder process the engine has waited for has added
\* exactly one unit, and when transcode_movies returns the count is the batch total.
C9_UnitPerFile ==
    app.phase = "encode" =>
        /\ vcounter.count = eng.waited
        /\ th[0].pc = "returned" => vcounter.count = Len(eng.batch)

\* C10 (as claimed): a failure line for one file does not end the batch: once a
\* path is on the failure list, transcode_movies does not raise, and when it has
\* returned every file was processed and the summary lists the failure list.
C10_FailureNonFatal ==
    (app.run = 1 /\ app.phase = "encode" /\ failed # <<>>) =>
        /\ th[0].pc # "raised"
        /\ th[0].pc = "returned" =>
              eng.idx > Len(eng.batch) /\ eng.summary = failed

----------------------------------------------------------------------------
(* Claims about TaskCounter, under SpecCounter *)

\* C3 (as claimed): for every interleaving of increment calls after one start, the
\* completed unit count equals the sum of the units the calls requested (a call
\* requesting 0 units adds 0, a call requesting 1 unit adds 1).
C3_CountIsSum == app.phase = "counter" => tc.count = requested

\* C4 (as claimed): between any two actual renders of report_progress at least
\* report_interval elapses, for every interleaving of the calling threads (the
\* time of a render is the time.time() its call sampled).
C4_RateLimited ==
    \A i, j \in 1..Len(renders) :
        i < j => Abs(renders[j].current_time - renders[i].current_time) >= tc.report_interval

----------------------------------------------------------------------------
(* Claims about split_directory, under SpecSplit *)

\* the buckets under which a copy of p exists at its mirrored path
BucketsHolding(p) ==
    {b \in Buckets : dst[transfer_path(p, Root, BucketDir(b))].kind # "none"}

\* C5 (as claimed): after split_directory returns, every enumerated file has
\* exactly one copy, under exactly one of Source, Transcoded, Unknown.
C5_Exhaustive ==
    app.phase = "split_returned" =>
        \A i \in 1..Len(app.files) : Cardinality(BucketsHolding(app.files[i])) = 1

----------------------------------------------------------------------------
(* Claims about check_transcoding_validity, under SpecValidity *)

\* C8: check_transcoding_validity returns (valid, d1), d1 the original's probed
\* duration, with valid true exactly when abs(d1 - d2) <= 0.01 * max(d1, d2)
\* (both sides times 100, over whole seconds).
C8_Validity ==
    val.pc = "returned" =>
        /\ val.duration = val.d1
        /\ val.valid <=> (Abs(val.d1 - val.d2) * 100 <= Max(val.d1, val.d2))

\* C8 witness: a pair at exactly 1% relative difference was judged valid
C8_Witness ==
    /\ val.pc = "returned" /\ val.d1 = 200 /\ val.d2 = 198
    /\ val.valid /\ val.duration = 200

----------------------------------------------------------------------------
(* Claims about VideoTranscoder.transcode_movies called on a batch, under SpecEngine *)

\* the deterministic output path of a source: <dir>/<basename>_AV1.mp4
C11_OutputPath(p) == [dir |-> p.dir, name |-> p.name \o <<"_AV1">>, ext |-> ".mp4"]

\* the engine is about to run transcode_to_av1_svt for the current file, and a
\* file exists at that file's output path
C11_OutputInTheWay ==
    /\ app.phase = "encode" /\ th[0].pc = "loop" /\ eng.idx <= Len(eng.batch)
    /\ C11_OutputPath(eng.batch[eng.idx]) \in DOMAIN fs
    /\ fs[C11_OutputPath(eng.batch[eng.idx])].kind # "none"

\* C11: whenever a file exists at the output path at encode time, the next step of
\* the engine raises, with no encoder process started and with the counter, the
\* failure list and the files unchanged; and once it has raised that error the
\* batch is over: the current file and every later one stay unprocessed, no
\* process was started for it, and transcode_movies has not returned.
C11_Step ==
    C11_OutputInTheWay =>
        /\ th'[0].pc = "raised" /\ th'[0].err = "OutputExists"
        /\ UNCHANGED <<proc, vcounter, failed, fs, eng>>

C11_Raised ==
    (th[0].pc = "raised" /\ th[0].err = "OutputExists") =>
        /\ eng.idx <= Len(eng.batch)
        /\ proc.state # "running"
        /\ proc.src # eng.batch[eng.idx] \/ proc.state = "none"
        /\ ~ENABLED NextEngine

C11_FatalIfOutputExists == [](C11_Raised) /\ [][C11_Step]_vars

\* C11 witness: the engine has raised for movie.mov, whose output path
\* movie_AV1.mp4 holds a file; nothing was started or counted
C11_Witness ==
    /\ th[0].pc = "raised" /\ th[0].err = "OutputExists"
    /\ eng.batch[eng.idx] = movie_mov /\ fs[movie_AV1_mp4].kind = "file"
    /\ proc = NoProc /\ vcounter.count = 0 /\ failed = <<>>

----------------------------------------------------------------------------
(* Claims about the image engine, under SpecImage *)

\* the sibling of an image: <dir>/<basename>.avif
C12_Sibling(p) == [dir |-> p.dir, name |-> p.name, ext |-> ".avif"]

\* C12: at the step where App.transcode_images has filtered the enumerated images,
\* a file is handed to the image engine exactly when no file exists at its sibling
\* path <dir>/<basename>.avif; and in a second run, made after every encode
\* proposed by the first run produced its .avif, no file is handed over.
C12_Filter ==
    (img.phase = "init" /\ img'.phase = "pool") =>
        \A i \in 1..Len(img'.images) :
            (img'.images[i] \in Elements(img'.files))
                <=> (fs[C12_Sibling(img'.images[i])].kind = "none")

C12_SecondRunEmpty ==
    (img.run = 2 /\ img.phase # "init" /\ ~img.run1_failed) => img.files = <<>>

C12_SiblingDecides == [](C12_SecondRunEmpty) /\ [][C12_Filter]_vars

\* C12 witness: photo.jpg alone was proposed and encoded by the first run, and the
\* second run has filtered the directory and proposes nothing
C12_Witness ==
    /\ hist.dir = ImgOne /\ img.run = 2 /\ img.phase = "pool"
    /\ fs[photo_avif].kind = "data" /\ img.images = <<photo_jpg>> /\ img.files = <<>>

\* C13 (as claimed): a failing avifenc call propagates out of
\* ImageTranscoder.transcode_images: the call does not return normally once a
\* task has raised.
C13_FailurePropagates ==
    img.phase = "returned" =>
        \A t \in 1..Len(img.tasks) : img.tasks[t].pc # "raised"

----------------------------------------------------------------------------
(* More claims about split_directory, under SpecSplit (the destination lies
   outside the source root) *)

\* C14: split_directory copies and never moves: while it runs and after it has
\* returned, every file under the source root is where it was, with the content
\* it had (hist.dir is the directory as split_directory found it).
C14_OriginalsKept ==
    app.phase \in {"split", "split_returned"} => fs = hist.dir

\* C14 witness: split_directory has returned, photo.jpg was copied under Source,
\* and the original is still in place
C14_Witness ==
    /\ app.phase = "split_returned" /\ hist.dir = SplitScenario
    /\ dst[PathIn(BucketDir("Source"), <<"photo">>, ".jpg")] = Data
    /\ fs[photo_jpg] = Data

\* the bucket of an extension and (for a video) a probed codec
C15_Bucket(ext, codec) ==
    IF ext \in {".avif", ".heic"} THEN "Transcoded"
    ELSE IF ext \in Elements(IMAGE_EXTENSIONS) THEN "Source"
    ELSE IF ext \in Elements(MOVIE_EXTENSIONS)
         THEN (IF codec \in {"av1", "hevc"} THEN "Transcoded" ELSE "Source")
    ELSE "Unknown"

C15_ProbedCodec(p) == IF db[p].kind = "info" THEN db[p].video_codec ELSE "unprobed"

\* C15: the bucket _move_single_split_file chooses for a file is a function of its
\* extension and, for a video extension, of its probed codec: .avif/.heic to
\* Transcoded, raw image extensions to Source, a video to Transcoded when its
\* codec is av1 or hevc and to Source otherwise, anything else to Unknown.  And
\* over photo.heic, photo.jpg, movie.mp4 (AV1), notes.xyz the files present under
\* the destination after the return are exactly Transcoded/photo.heic,
\* Source/photo.jpg, Transcoded/movie.mp4, Unknown/notes.xyz.
C15_Classifier ==
    /\ app.phase \in {"split", "split_returned"} =>
         \A t \in Tasks :
            th[t].target # "none" =>
               th[t].target = C15_Bucket(th[t].path.ext, C15_ProbedCodec(th[t].path))
    /\ (app.phase = "split_returned" /\ hist.dir = SplitScenario) =>
         {q \in DestPaths : dst[q].kind # "none"} =
            {PathIn(BucketDir("Transcoded"), <<"photo">>, ".heic"),
             PathIn(BucketDir("Source"), <<"photo">>, ".jpg"),
             PathIn(BucketDir("Transcoded"), <<"movie">>, ".mp4"),
             PathIn(BucketDir("Unknown"), <<"notes">>, ".xyz")}

\* C15 witness: the four files of the scenario have been classified and copied
C15_Witness ==
    /\ app.phase = "split_returned" /\ hist.dir = SplitScenario
    /\ \E t \in Tasks : th[t].path = movie_mp4 /\ th[t].target = "Transcoded"
                        /\ db[movie_mp4].video_codec = "av1"
    /\ \E t \in Tasks : th[t].path = photo_heic /\ th[t].target = "Transcoded"
    /\ \E t \in Tasks : th[t].path = notes_xyz /\ th[t].target = "Unknown"
    /\ dst[PathIn(BucketDir("Unknown"), <<"notes">>, ".xyz")] = Data

----------------------------------------------------------------------------
(* More claims about TaskCounter, under SpecCounter (a counter started without a
   subunit total, so the unit count and the unit total drive the estimate) *)

\* C16 (as claimed): every block rendered while the unit count is positive shows
\* the estimate elapsed / completed * (total - completed), formatted as HH:MM:SS,
\* with elapsed the time since start when the block was composed.
C16_Estimate ==
    \A i \in 1..Len(renders) :
        renders[i].count > 0 =>
            renders[i].text =
                format_time(((renders[i].composed_at - tc.start_time)
                              * (tc.total - renders[i].count)) \div renders[i].count)

----------------------------------------------------------------------------
(* Claims about TaskCounter.progress, under SpecProgress *)

\* C17 (as claimed): progress() on a started counter always returns a value; the
\* value is count / total, and it is 0 when the counter was started with total 0.
C17_ProgressTotal ==
    pg.pc \in {"returned", "raised"} =>
        /\ pg.pc = "returned"
        /\ pg.result.kind = "value"
        /\ IF pg.c.total = 0
           THEN pg.result.num = 0
           ELSE pg.result.num * pg.c.total = pg.c.count * pg.result.den

----------------------------------------------------------------------------
(* Claims about ConsoleUtils.progress_bar_string, under SpecBar *)

\* floor(clamped fraction * width), the clamp written out by cases
C19_Filled ==
    IF bar.f.num < 0 THEN 0
    ELSE IF bar.f.num > bar.f.den THEN bar.width
    ELSE CHOOSE k \in 0..bar.width :
            /\ k * bar.f.den <= bar.f.num * bar.width
            /\ (k + 1) * bar.f.den > bar.f.num * bar.width

C19_Shape ==
    bar.pc = "returned" =>
        /\ Len(bar.result) = bar.width
        /\ \A i \in 1..Len(bar.result) :
              bar.result[i] = IF i <= C19_Filled THEN "#" ELSE "."

\* the call changes nothing but its own result
C19_Pure ==
    bar.pc = "call" /\ bar'.pc = "returned" =>
        /\ bar'.f = bar.f /\ bar'.width = bar.width
        /\ UNCHANGED <<videoVars, splitVars, counterVars, val, img, pg, con, apiVars>>

\* C19: progress_bar_string(fraction, width) returns floor(clamp(fraction) * width)
\* '#' cells followed by '.' cells, of length exactly width, for fractions below 0,
\* above 1 and in between, and has no side effects.
C19_BarString == [](C19_Shape) /\ [][C19_Pure]_vars

\* a fraction above 1, one below 0 and one strictly inside, each with a bar returned
C19_Witness ==
    /\ bar.pc = "returned" /\ bar.width = MaxWidth
    /\ bar.f.num > bar.f.den
    /\ bar.result = Repeat("#", MaxWidth)

C19_WitnessInside ==
    /\ bar.pc = "returned" /\ bar.width = 3
    /\ bar.f = [num |-> 1, den |-> 2]
    /\ bar.result = <<"#", ".", ".">>

----------------------------------------------------------------------------
(* Claims about the renders on the terminal, under SpecConsole *)

C18_Last == con.blocks[Len(con.blocks)]

\* some cell of the screen holds a character written by render k
C18_TextOf(k) ==
    \E r \in 1..ConHeight, c \in 1..ConWidth : con.term.screen[r][c] = Glyph(k)

\* C18 (as claimed): after a render with rewind (print_multiline with
\* do_rewind, or the render of report_progress) the cursor is in the first column
\* of the row that holds the first line of the block, every character of the render
\* went to a row that the render had cleared, and after a following render with the
\* same number of lines no text of the previous render is left on the screen.
C18_RenderInPlace ==
    /\ con.blocks # <<>> /\ C18_Last.rewinds =>
          /\ con.term.row = C18_Last.top /\ con.term.col = 1
          /\ ~ C18_Last.dirty
    /\ \A k \in 1..(Len(con.blocks) - 1) :
          con.blocks[k].rewinds /\ con.blocks[k + 1].n = con.blocks[k].n
              /\ Len(con.blocks) = k + 1
          => ~ C18_TextOf(k)

\* the same for renders whose lines all fit in one row of the terminal
C18_InPlaceWhenFits ==
    (\A k \in 1..Len(con.blocks) : ~ con.blocks[k].wrapped) => C18_RenderInPlace

----------------------------------------------------------------------------
(* Claims about the order of the encodes, under SpecEngine *)

\* the engine is inside the encode of the current file: between Popen and the
\* return of process.wait()
C20_InEncode == th[0].pc \in {"readline", "wait"}

\* while the engine is at the loop head, probing the next file or about to start
\* its encoder, or has returned, no encoder process is running or unwaited
C20_NoneBetween ==
    th[0].pc \notin {"readline", "wait", "raised"} => proc.state \in {"none", "waited"}

C20_Step ==
    \* an encoder is started only when no earlier one is running or unwaited
    /\ proc'.state = "running" /\ proc.state # "running"
          => proc.state \in {"none", "waited"} /\ th[0].pc = "popen"
    \* the engine leaves process.wait() only after the encoder has exited
    /\ th[0].pc = "wait" /\ th'[0].pc # "wait" => proc.state = "exited"
    \* and the loop moves to the next file only from there
    /\ eng'.idx # eng.idx => th[0].pc = "wait" /\ proc.state = "exited"

----------------------------------------------------------------------------
(* Claims about the progress fed to the counter during an encode, under
   SpecEngine *)

\* C21 (as claimed): while the first file of the batch is encoding, reading a line
\* with a time marker does not fail in the counter call, the counter's completed
\* subunits equal the last marker read (the sum of the deltas) and its completed
\* units stay 0 until process.wait() has returned.
C21_DeltaFed ==
    app.phase = "encode" /\ eng.idx = 1 /\ eng.waited = 0 /\ eng.nlines > 0 =>
        /\ th[0].pc = "raised" => th[0].err # "TypeError"
        /\ th[0].pc \in {"readline", "wait"} =>
              /\ vcounter.subunits_count = eng.last_progress
              /\ vcounter.count = 0

----------------------------------------------------------------------------
(* Claims about TaskCounter as a component, under SpecEstimate *)

\* the count that drives the estimate, as time_report selects it
C22_Driving(c) == IF ~c.subunits THEN c.subunits_count ELSE c.count

\* the estimate a computation at time t would give
C22_Fresh(c, t) ==
    LET total == IF ~c.subunits THEN c.subunits_total ELSE c.total
    IN format_time(((t - c.start_time) * (total - C22_Driving(c))) \div C22_Driving(c))

C22_Step ==
    IF est'.calls # est.calls
    THEN \* a call of time_report
         LET count == C22_Driving(est.c) IN
         IF count = 0
         THEN est'.last.text = [kind |-> "estimating"] /\ est'.c = est.c
         ELSE IF count = est.c.estimated_on
         THEN est'.last.text = est.c.estimate_time /\ est'.c = est.c
         ELSE /\ est'.last.text = C22_Fresh(est.c, est.clock)
              /\ est'.c = [est.c EXCEPT !.estimate_time = est'.last.text,
                                        !.estimated_on = count]
    ELSE \* nothing else touches the cached estimate
         /\ est'.c.estimate_time = est.c.estimate_time
         /\ est'.c.estimated_on = est.c.estimated_on

----------------------------------------------------------------------------
(* Claims about the mutexes, under SpecLocks *)

C23_Holds(t) == lk.counter = t \/ lk.cache = t \/ lk.fsl = t

\* the steps taken with the counter's lock or the cache's lock held
C23_Critical == {"count_rmw", "estimate", "print1", "print2", "lookup", "insert",
                 "rel_counter", "rel_cache"}

C24_WholeBlocks ==
    \A i \in 1..Len(lk.out) :
        IF lk.out[i].line = 1
        THEN IF i < Len(lk.out)
             THEN lk.out[i + 1] = [t |-> lk.out[i].t, line |-> 2]
             ELSE lk.counter = lk.out[i].t
        ELSE i > 1 /\ lk.out[i - 1] = [t |-> lk.out[i].t, line |-> 1]

\* two workers have each printed a block
C24_Witness ==
    /\ Len(lk.out) = 4
    /\ lk.out[1].t # lk.out[3].t

\* C28: for workers copying into the same directory, the exists-check and the
\* create happen under one lock: no worker fails with a duplicate create or a
\* missing directory, each directory is created at most once, and a worker whose
\* copy is next finds its directory.
C28_AtomicCreate ==
    /\ \A t \in 1..LkWorkers :
          /\ lk.w[t].err \notin {"FileExistsError", "FileNotFoundError"}
          /\ lk.w[t].todo # <<>> /\ Head(lk.w[t].todo).op = "copy"
                => lk.w[t].key \in lk.dirs
          /\ lk.w[t].todo # <<>> /\ Head(lk.w[t].todo).op \in {"exists", "makedirs"}
                => lk.fsl = t
    /\ \A k \in LkKeys : lk.made[k] <= 1

\* two workers copied into one directory that did not exist, created once
C28_Witness ==
    /\ lk.kind = "split" /\ lk.copied = LkWorkers
    /\ \E k \in LkKeys : lk.made[k] = 1 /\ \A t \in 1..LkWorkers : lk.w[t].key = k

----------------------------------------------------------------------------
(* Claims about the start of an encode, under SpecEngine *)

\* C26 (as claimed): the audio check before the encoder is started never raises,
\* also for a source without an audio stream, and once the encoder is started the
\* AAC directive is in the command exactly when the probed audio codec is not one
\* of aac, mp3, ac3, eac3.
C26_AudioCheck ==
    app.phase = "encode" =>
        /\ th[0].err # "AttributeError"
        /\ th[0].pc \in {"readline", "wait"} =>
              eng.aac = (eng.info.audio_codec \notin {"aac", "mp3", "ac3", "eac3"})

\* C27 (as claimed): a source whose probed duration is 0.0 is encoded through all
\* its progress lines to the exit of the encoder without an error raised by the
\* duration.
C27_ZeroDuration ==
    app.phase = "encode" /\ eng.info.kind = "info" /\ eng.info.duration = 0 =>
        th[0].err # "ZeroDivisionError"

----------------------------------------------------------------------------
(* Claims about the batch that classification hands to the engine, under Spec *)

----------------------------------------------------------------------------
(* More claims about the image engine, under SpecImage *)

\* C30 (as claimed): the output paths of the files handed to the image pool in one
\* dispatch are pairwise distinct, so no two avifenc jobs running at the same time
\* write to the same output path, also for two images that differ in their
\* extension only.
C30_DistinctOutputs ==
    /\ \A i, j \in 1..Len(img.files) :
          i # j => avif_path(img.files[i]) # avif_path(img.files[j])
    /\ \A t, u \in ImgRunning :
          t # u => avif_path(img.tasks[t].path) # avif_path(img.tasks[u].path)

----------------------------------------------------------------------------
(* Claims about the probe cache and the empty directory, under Spec *)

C34_EmptyList ==
    extract_files(hist.dir, MOVIE_EXTENSIONS) = <<>> /\ app.run = 1 /\ app.phase # "init"
        => /\ app.err = "none"
           /\ \A p \in AllPaths : probes[p] = 0
           /\ proc = NoProc
           /\ fs = hist.dir

----------------------------------------------------------------------------
(* Claims about the order of renders, under SpecCounter *)

\* C33 (as claimed): the completed counts shown by successive renders of one
\* counter never decrease, whatever the interleaving of the worker threads: a
\* block composed from an older count is never printed after a block that
\* showed a larger count.
C33_RendersOrdered ==
    \A i, j \in 1..Len(renders) : i < j => renders[i].count <= renders[j].count

----------------------------------------------------------------------------
(* Claims about what is eventually displayed, under SpecCounterLive *)

\* every call a pool thread has begun runs to its end, and the pool runs every
\* unit of work it was given
WorkerStep(w) ==
    Work(w) \/ RTime(w) \/ RCheck(w) \/ RSet(w) \/ RCompose(w) \/ RPrint(w)

\* the counter's threads under a fair scheduler, with time passing
SpecCounterLive ==
    /\ InitCounter
    /\ [][NextCounter]_vars
    /\ \A w \in Workers : WF_vars(WorkerStep(w))
    /\ WF_vars(Tick)

\* C32 (as claimed): in a batch of at least one unit, once the last increment
\* has brought the count to the total, a progress block showing count = total
\* is eventually rendered, also when the last report_progress call falls
\* inside the report interval.
C32_CompletionShown ==
    (tc.total > 0 /\ tc.count = tc.total)
        ~> (\E i \in 1..Len(renders) : renders[i].count = tc.total)

====
